---- MODULE Spec2Model ----
(***************************************************************************)
(* readmi: the extraction engine of parse.ts.                              *)
(*                                                                         *)
(* parseDeclarationFile loads one declaration file, walks its immediate    *)
(* children and turns each into zero or more Elements; extractTypeAnnotation*)
(* resolves type expressions, extractJsDoc / mergeJsDoc normalise and merge*)
(* documentation comments.                                                 *)
(*                                                                         *)
(* The TypeScript compiler API is the boundary of the model: a syntax node *)
(* is a record holding what the code reads from it (kind, name, members,   *)
(* the JSDoc blocks ts.getJSDocCommentsAndTags returns, the text           *)
(* checker.typeToString renders, the alias symbol the checker resolves).   *)
(*                                                                         *)
(* Text that the code inspects (comments, tag names, member names) is a    *)
(* sequence of one-character strings; text it only copies is a string.     *)
(* An optional field that is undefined in the code is a field the record   *)
(* does not have (JSON.stringify drops it).                                *)
(***************************************************************************)
EXTENDS Integers, Sequences, FiniteSets, TLC

VARIABLES
  pc,             \* position of parseDeclarationFile: start, walk, done, threw
  sourceFile,     \* what program.getSourceFile(filePath) returns
  idx,            \* the next child ts.forEachChild hands to the callback
  extractedTypes, \* the array parseDeclarationFile collects into
  origin,         \* history: for every collected element, the child it came from
  calls,          \* history: number of extractNode invocations
  console,        \* what console.error has been given
  returned,       \* the value parseDeclarationFile returned (once done)
  runs,           \* history: [input, output] of every completed call, oldest first
  jsdocRef,       \* for every collected element, the JSDocInfo object its jsdoc refers to
  frames,         \* call stack of extractTypeAnnotation, one frame per active call
  walkRoot,       \* the type expression the outermost call was given
  ncalls          \* number of extractTypeAnnotation calls made so far

vars == <<pc, sourceFile, idx, extractedTypes, origin, calls, console, returned, runs,
          jsdocRef, frames, walkRoot, ncalls>>

driverVars == <<pc, sourceFile, idx, extractedTypes, origin, calls, console, returned, runs,
                jsdocRef>>
walkVars == <<frames, walkRoot, ncalls>>

(***************************************************************************)
(* Bounds of the model.                                                    *)
(***************************************************************************)
\* top-level statements of a generated multi-statement file
MaxDecls == 2
\* parent-level tags on a documented variable statement
MaxTags == 2
\* members of its type literal
MaxMembers == 2
\* constituents of a generated union, intersection or tuple
MaxArity == 2
\* calls of parseDeclarationFile in one process
MaxRuns == 3

(***************************************************************************)
(* Generic helpers.                                                        *)
(***************************************************************************)
\* {f: v} when c, {} otherwise: an optional field of an object literal
Opt(f, c, v) == IF c THEN f :> v ELSE <<>>

\* the same for a value m that is <<>> (undefined) or <<v>>
OptSeq(f, m) == IF m # <<>> THEN f :> m[1] ELSE <<>>

Has(r, f) == f \in DOMAIN r

Range(s) == {s[i] : i \in 1..Len(s)}

Min(S) == CHOOSE i \in S : \A j \in S : i <= j
Max(S) == CHOOSE i \in S : \A j \in S : i >= j

\* the least element of I, or d when I is empty
MinOr(I, d) == IF I = {} THEN d ELSE Min(I)

\* all sequences over S of length lo..hi
SeqsOf(S, lo, hi) == UNION {[1..n -> S] : n \in lo..hi}

RECURSIVE Flatten(_)
Flatten(ss) == IF ss = <<>> THEN <<>> ELSE Head(ss) \o Flatten(Tail(ss))

\* Array.prototype.filter with the predicate given as the set of kept indices
RECURSIVE FilterIdx(_, _, _)
FilterIdx(s, keep, i) ==
  IF i > Len(s) THEN <<>>
  ELSE (IF i \in keep THEN <<s[i]>> ELSE <<>>) \o FilterIdx(s, keep, i + 1)

(***************************************************************************)
(* JavaScript string operations on character sequences.                    *)
(***************************************************************************)
isSpace(c) == c = " "

\* String.prototype.startsWith
startsWith(s, p) == Len(s) >= Len(p) /\ SubSeq(s, 1, Len(p)) = p

\* String.prototype.indexOf, 1-based; 0 when p does not occur
indexOf(s, p) ==
  MinOr({i \in 1..(Len(s) - Len(p) + 1) : SubSeq(s, i, i + Len(p) - 1) = p}, 0)

\* s with the Len(p) characters at i replaced by r; s itself when i = 0
replaceAt(s, p, r, i) ==
  IF i = 0 THEN s ELSE SubSeq(s, 1, i - 1) \o r \o SubSeq(s, i + Len(p), Len(s))

\* String.prototype.replace(p, r) with a string pattern: the first occurrence only
replace(s, p, r) == replaceAt(s, p, r, indexOf(s, p))

trimTo(s, keep) == IF keep = {} THEN <<>> ELSE SubSeq(s, Min(keep), Max(keep))

\* String.prototype.trim
trim(s) == trimTo(s, {i \in 1..Len(s) : ~isSpace(s[i])})

\* Array.prototype.join(' ')
RECURSIVE join(_)
join(parts) ==
  IF parts = <<>> THEN <<>>
  ELSE IF Len(parts) = 1 THEN parts[1]
  ELSE parts[1] \o <<" ">> \o join(Tail(parts))

\* first index >= from holding a whitespace (resp. non-whitespace) character,
\* Len(s)+1 when there is none: the end of a maximal \S+ (resp. \s+) run
nextSpace(s, from) == MinOr({i \in from..Len(s) : isSpace(s[i])}, Len(s) + 1)

nextNonSpace(s, from) == MinOr({i \in from..Len(s) : ~isSpace(s[i])}, Len(s) + 1)

\* The pattern of extractJsDocTagDetailProperty:
\*    ^ { group1: \S+ } \s+ group2: \S+ \s+ - \s+ group3: rest of the line $
\* Every quantified run is followed by a character of the other class, so each
\* run is maximal and the match, if any, is unique.  With
\*    w1 the first blank ("}" sits right before it), n2 the start of group 2,
\*    w2 its end, d the dash, n3 the start of group 3:
patternGroups(s, w1, n2, w2, d, n3) ==
  IF /\ Len(s) >= 1 /\ s[1] = "{"
     /\ w1 <= Len(s) /\ w1 >= 4 /\ s[w1 - 1] = "}"
     /\ n2 <= Len(s)
     /\ w2 <= Len(s)
     /\ d <= Len(s) /\ s[d] = "-"
     /\ d + 1 <= Len(s) /\ isSpace(s[d + 1])
  THEN [matched |-> TRUE,
        literal |-> SubSeq(s, 2, w1 - 2),
        name |-> SubSeq(s, n2, w2 - 1),
        description |-> SubSeq(s, n3, Len(s))]
  ELSE [matched |-> FALSE]

patternFromDash(s, w1, n2, w2, d) == patternGroups(s, w1, n2, w2, d, nextNonSpace(s, d + 1))
patternFromGroup2End(s, w1, n2, w2) == patternFromDash(s, w1, n2, w2, nextNonSpace(s, w2))
patternFromGroup2(s, w1, n2) == patternFromGroup2End(s, w1, n2, nextSpace(s, n2))
patternFromBlank(s, w1) == patternFromGroup2(s, w1, nextNonSpace(s, w1))
propertyPattern(s) == patternFromBlank(s, nextSpace(s, 1))

(***************************************************************************)
(* Comment Normalizer.                                                     *)
(*                                                                         *)
(* A ts comment value is [form |-> "undefined"], [form |-> "string",       *)
(* text |-> s] or [form |-> "parts", parts |-> <<[text |-> s], ...>>].     *)
(* A value that may be undefined is a sequence of length 0 or 1.           *)
(***************************************************************************)
UndefinedComment == [form |-> "undefined"]
StringComment(s) == [form |-> "string", text |-> s]
PartsComment(ps) == [form |-> "parts", parts |-> ps]

\* the text of a comment: a string as it is, an array of parts joined by ' '
commentTextOf(comment) ==
  IF comment.form = "string" THEN <<comment.text>>
  ELSE IF comment.form = "parts"
       THEN <<join([i \in 1..Len(comment.parts) |-> comment.parts[i].text])>>
  ELSE <<>>

\* commentText?.startsWith('- ') ? commentText.replace('- ', '') : commentText
stripDash(commentText) ==
  IF commentText # <<>> /\ startsWith(commentText[1], <<"-", " ">>)
  THEN <<replace(commentText[1], <<"-", " ">>, <<>>)>>
  ELSE commentText

extractComment(comment) == stripDash(commentTextOf(comment))

\* a destructuring that takes the captured groups in the wrong order
propertyFieldsSwapped(match) ==
  IF match.matched
  THEN [comment |-> trim(match.description),
        name |-> match.literal,
        literal |-> match.name]
  ELSE <<>>

\* the fields of a property tag whose comment matched (or not)
propertyFields(match) ==
  IF match.matched
  THEN [comment |-> trim(match.description),
        name |-> match.name,
        literal |-> match.literal]
  ELSE <<>>

\* extractComment(tag.comment)?.match(pattern)
matchComment(c) == IF c = <<>> THEN [matched |-> FALSE] ELSE propertyPattern(c[1])

extractJsDocTagDetailProperty(tag) == propertyFields(matchComment(extractComment(tag.comment)))

\* x || undefined for a string x that may be undefined
orUndefined(x) == IF x # <<>> /\ x[1] # <<>> THEN x ELSE <<>>

extractJsDocTagDetail(tag) ==
  IF tag.tagName = "property"
  THEN extractJsDocTagDetailProperty(tag)
  ELSE OptSeq("comment", orUndefined(extractComment(tag.comment)))
       @@ Opt("name", Has(tag, "name") /\ tag.name # <<>>, tag.name)
       @@ Opt("literal", Has(tag, "typeExpression") /\ tag.typeExpression # <<>>,
              tag.typeExpression)

\* ts.getJSDocTags: the tags of every block ts.getJSDocCommentsAndTags returns
getJSDocTags(node) ==
  Flatten([i \in 1..Len(node.jsDocs) |-> node.jsDocs[i].tags])

\* jsDocs[0]?.comment
firstComment(node) ==
  IF node.jsDocs = <<>> THEN UndefinedComment ELSE node.jsDocs[1].comment

\* a JSDocInfo built without the early return for "no description, no tags"
jsDocInfoAlways(description, tags) == <<[description |-> description, tags |-> tags]>>

\* a JSDocInfo is [description |-> seq, tags |-> seq]; an empty sequence is an
\* absent field (the code never stores an empty array in either)
jsDocInfo(description, tags) ==
  IF description = <<>> /\ Len(tags) = 0
  THEN <<>>
  ELSE <<[description |-> description, tags |-> tags]>>

mapTags(jsDocTags) ==
  [i \in 1..Len(jsDocTags) |->
     [tagName |-> jsDocTags[i].tagName] @@ extractJsDocTagDetail(jsDocTags[i])]

\* an extractor that answers every documentation block, an empty-bodied one too
extractJsDocOfAnyBlock(node) ==
  IF node.jsDocs = <<>> THEN <<>>
  ELSE <<[description |-> orUndefined(extractComment(firstComment(node))),
          tags |-> mapTags(getJSDocTags(node))]>>

extractJsDoc(node) ==
  jsDocInfo(orUndefined(extractComment(firstComment(node))), mapTags(getJSDocTags(node)))

\* propTag?.comment of a JSDocTag of the output
tagComment(propTag) ==
  IF Has(propTag, "comment") THEN StringComment(propTag.comment) ELSE UndefinedComment

\* propertyJsDocTags.map(propTag => extractComment(propTag?.comment))
\*                  .filter(value => value !== undefined)
externalDescriptions(propertyJsDocTags) ==
  IF propertyJsDocTags # <<>> /\ Len(propertyJsDocTags[1]) > 0
  THEN Flatten([i \in 1..Len(propertyJsDocTags[1]) |->
                  extractComment(tagComment(propertyJsDocTags[1][i]))])
  ELSE <<>>

mergedInfo(inlineTags, descriptions) ==
  IF inlineTags = <<>> /\ Len(descriptions) = 0
  THEN <<>>
  ELSE <<[tags |-> inlineTags, description |-> descriptions]>>

\* inlinedJsDoc?.description || [] (and the same for tags)
fieldOrEmpty(inlinedJsDoc, f) == IF inlinedJsDoc = <<>> THEN <<>> ELSE inlinedJsDoc[1][f]

\* a merge that also carries the parent-level tags over into the member's tags
mergeJsDocWithPropertyTags(inlinedJsDoc, propertyJsDocTags) ==
  mergedInfo(fieldOrEmpty(inlinedJsDoc, "tags")
               \o (IF propertyJsDocTags = <<>> THEN <<>> ELSE propertyJsDocTags[1]),
             externalDescriptions(propertyJsDocTags)
               \o fieldOrEmpty(inlinedJsDoc, "description"))

\* inlinedJsDoc and propertyJsDocTags are each <<>> (undefined) or <<value>>
mergeJsDoc(inlinedJsDoc, propertyJsDocTags) ==
  mergedInfo(fieldOrEmpty(inlinedJsDoc, "tags"),
             externalDescriptions(propertyJsDocTags)
               \o fieldOrEmpty(inlinedJsDoc, "description"))

(***************************************************************************)
(* Type-Annotation Resolver.                                               *)
(*                                                                         *)
(* A type node is [kind, typeString, ...]: typeString is what              *)
(* checker.typeToString(checker.getTypeAtLocation(node)) renders; a        *)
(* TypeReference node has typeName and, when the checker's type carries an *)
(* alias symbol, aliasSymbol |-> [name |-> its declared name].             *)
(***************************************************************************)
extractGenerics(node) ==
  IF node.kind \notin {"FunctionDeclaration", "MethodSignature", "FunctionType",
                       "TypeAliasDeclaration"}
  THEN <<>>
  ELSE IF ~Has(node, "typeParameters") \/ Len(node.typeParameters) = 0
  THEN <<>>
  ELSE <<[i \in 1..Len(node.typeParameters) |->
            [name |-> node.typeParameters[i].name]
            @@ Opt("extends", Has(node.typeParameters[i], "constraint"),
                   node.typeParameters[i].constraint)
            @@ Opt("defaultValue", Has(node.typeParameters[i], "default"),
                   node.typeParameters[i].default)]>>

RECURSIVE extractTypeAnnotation(_, _)
RECURSIVE extractParameter(_)
RECURSIVE extractTypeLiteralMember(_, _)

\* member.name?.getText(): <<>> (undefined) or <<text>>
memberNameText(member) == IF Has(member, "name") THEN <<member.name>> ELSE <<>>

\* tag.name: <<>> (undefined) or <<text>>
tagNameText(tag) == IF Has(tag, "name") THEN <<tag.name>> ELSE <<>>

\* jsDocTags?.filter(tag => tag.name === member.name?.getText())
filterTagsByName(jsDocTags, member) ==
  IF jsDocTags = <<>> THEN <<>>
  ELSE <<FilterIdx(jsDocTags[1],
                   {i \in 1..Len(jsDocTags[1]) :
                      tagNameText(jsDocTags[1][i]) = memberNameText(member)},
                   1)>>

\* a reference named by its written text, whatever the checker resolved
writtenName(typeRef) == typeRef.typeName

\* type.aliasSymbol ? type.aliasSymbol.getName() : typeRef.typeName.getText()
referenceName(typeRef) ==
  IF Has(typeRef, "aliasSymbol") THEN typeRef.aliasSymbol.name ELSE typeRef.typeName

RECURSIVE typeLiteralAnnotation(_, _)
RECURSIVE functionTypeAnnotation(_)
RECURSIVE typeReferenceAnnotation(_)
RECURSIVE tupleAnnotation(_)
RECURSIVE intersectionAnnotation(_)
RECURSIVE unionAnnotation(_)

\* a fallback under a discriminant outside the TypeAnnotation union
primitiveAnnotationAsKeyword(typeNode) ==
  [kind |-> "Keyword",
   literal |-> typeNode.typeString]

\* the fallback of the switch
primitiveAnnotation(typeNode) ==
  [kind |-> "PrimitiveType",
   literal |-> typeNode.typeString]

\* jsDocTags is <<>> (the argument was omitted) or <<array of JSDocTag>>
extractTypeAnnotation(typeNode, jsDocTags) ==
  CASE typeNode.kind = "TypeLiteral" -> typeLiteralAnnotation(typeNode, jsDocTags)
    [] typeNode.kind = "FunctionType" -> functionTypeAnnotation(typeNode)
    [] typeNode.kind = "TypeReference" -> typeReferenceAnnotation(typeNode)
    [] typeNode.kind = "TupleType" -> tupleAnnotation(typeNode)
    [] typeNode.kind = "IntersectionType" -> intersectionAnnotation(typeNode)
    [] typeNode.kind = "UnionType" -> unionAnnotation(typeNode)
    [] OTHER -> primitiveAnnotation(typeNode)

typeLiteralAnnotation(typeNode, jsDocTags) ==
  [kind |-> "TypeLiteral",
   literal |-> typeNode.typeString,
   members |-> [i \in 1..Len(typeNode.members) |->
                  extractTypeLiteralMember(
                    typeNode.members[i],
                    filterTagsByName(jsDocTags, typeNode.members[i]))]]
  @@ OptSeq("generics", extractGenerics(typeNode))

functionTypeAnnotation(funcNode) ==
  [kind |-> "FunctionType",
   literal |-> funcNode.typeString,
   parameters |-> [i \in 1..Len(funcNode.parameters) |->
                     extractParameter(funcNode.parameters[i])],
   returnType |-> extractTypeAnnotation(funcNode.type, <<>>)]
  @@ OptSeq("generics", extractGenerics(funcNode))

\* the reference arm with the rendered text the other arms carry
typeReferenceWithLiteral(typeRef) ==
  [kind |-> "TypeReference",
   literal |-> typeRef.typeString,
   name |-> referenceName(typeRef)]
  @@ Opt("parameters", Has(typeRef, "typeArguments"),
         [i \in 1..Len(typeRef.typeArguments) |->
            extractTypeAnnotation(typeRef.typeArguments[i], <<>>)])

typeReferenceAnnotation(typeRef) ==
  [kind |-> "TypeReference",
   name |-> referenceName(typeRef)]
  @@ Opt("parameters", Has(typeRef, "typeArguments"),
         [i \in 1..Len(typeRef.typeArguments) |->
            extractTypeAnnotation(typeRef.typeArguments[i], <<>>)])

tupleAnnotation(tupleNode) ==
  [kind |-> "Tuple",
   literal |-> tupleNode.typeString,
   types |-> [i \in 1..Len(tupleNode.elements) |->
                extractTypeAnnotation(tupleNode.elements[i], <<>>)]]

\* an intersection arm that keeps the first occurrence of every constituent
intersectionDeduplicated(intersectionNode) ==
  [kind |-> "Intersection",
   literal |-> intersectionNode.typeString,
   types |-> FilterIdx([i \in 1..Len(intersectionNode.types) |->
                          extractTypeAnnotation(intersectionNode.types[i], <<>>)],
                       {i \in 1..Len(intersectionNode.types) :
                          \A j \in 1..(i - 1) :
                            intersectionNode.types[j] # intersectionNode.types[i]}, 1)]

intersectionAnnotation(intersectionNode) ==
  [kind |-> "Intersection",
   literal |-> intersectionNode.typeString,
   types |-> [i \in 1..Len(intersectionNode.types) |->
                extractTypeAnnotation(intersectionNode.types[i], <<>>)]]

\* the union arm with the kind of the arm above it
unionAsIntersection(unionNode) ==
  [kind |-> "Intersection",
   literal |-> unionNode.typeString,
   types |-> [i \in 1..Len(unionNode.types) |->
                extractTypeAnnotation(unionNode.types[i], <<>>)]]

unionAnnotation(unionNode) ==
  [kind |-> "Union",
   literal |-> unionNode.typeString,
   types |-> [i \in 1..Len(unionNode.types) |->
                extractTypeAnnotation(unionNode.types[i], <<>>)]]

extractParameter(param) ==
  [name |-> param.name]
  @@ OptSeq("jsdoc", extractJsDoc(param))
  @@ Opt("typeAnnotation", Has(param, "type"), extractTypeAnnotation(param.type, <<<<>>>>))

\* x || ''
orEmpty(x) == IF x # <<>> /\ x[1] # <<>> THEN x[1] ELSE <<>>

\* a member extractor that hands its tags on to the member's type
extractTypeLiteralMemberInheriting(member, jsDocTags) ==
  [name |-> orEmpty(memberNameText(member))]
  @@ Opt("typeAnnotation", Has(member, "type"), extractTypeAnnotation(member.type, jsDocTags))
  @@ OptSeq("jsdoc", mergeJsDoc(extractJsDoc(member), jsDocTags))

extractTypeLiteralMember(member, jsDocTags) ==
  [name |-> orEmpty(memberNameText(member))]
  @@ Opt("typeAnnotation", Has(member, "type"), extractTypeAnnotation(member.type, <<>>))
  @@ OptSeq("jsdoc", mergeJsDoc(extractJsDoc(member), jsDocTags))

(***************************************************************************)
(* Declaration Extractors.                                                 *)
(*                                                                         *)
(* printed is what printer.printNode renders, as a sequence of tokens.     *)
(***************************************************************************)
\* printer.printNode(...).replace('export type ', '')
printLiteral(node) == replace(node.printed, <<"export type ">>, <<>>)

\* jsdoc?.tags
tagsOf(jsdoc) == IF jsdoc = <<>> \/ jsdoc[1].tags = <<>> THEN <<>> ELSE <<jsdoc[1].tags>>

\* the callback of declarations.map, with the statement's jsdoc
variableElement(declaration, jsdoc) ==
  [kind |-> "Variable", name |-> declaration.name]
  @@ OptSeq("jsdoc", jsdoc)
  @@ Opt("literal", Has(declaration, "type"), printLiteral(declaration))
  @@ Opt("typeAnnotation", Has(declaration, "type"),
         extractTypeAnnotation(declaration.type, tagsOf(jsdoc)))

\* a map that stops after the first name of the statement
mapFirstDeclaration(declarations, jsdoc) == <<variableElement(declarations[1], jsdoc)>>

mapDeclarations(declarations, jsdoc) ==
  [i \in 1..Len(declarations) |-> variableElement(declarations[i], jsdoc)]

extractVariables(statement) ==
  mapDeclarations(statement.declarations, extractJsDoc(statement))

\* a function extractor that leaves the name of an unnamed function empty
extractFunctionUnnamed(func) ==
  [kind |-> "Function",
   name |-> IF Has(func, "name") THEN func.name ELSE "",
   parameters |-> [i \in 1..Len(func.parameters) |-> extractParameter(func.parameters[i])]]
  @@ Opt("returnType", Has(func, "type"), extractTypeAnnotation(func.type, <<>>))
  @@ OptSeq("generics", extractGenerics(func))
  @@ OptSeq("jsdoc", extractJsDoc(func))

extractFunction(func) ==
  [kind |-> "Function",
   name |-> IF Has(func, "name") THEN func.name ELSE "anonymous",
   parameters |-> [i \in 1..Len(func.parameters) |-> extractParameter(func.parameters[i])]]
  @@ Opt("returnType", Has(func, "type"), extractTypeAnnotation(func.type, <<>>))
  @@ OptSeq("generics", extractGenerics(func))
  @@ OptSeq("jsdoc", extractJsDoc(func))

\* node.modifiers?.some(modifier => modifier.kind === kind)
hasModifier(node, kind) == Has(node, "modifiers") /\ kind \in Range(node.modifiers)

\* an access modifier that falls back to the language's default
getAccessModifierDefaultPublic(member) ==
  IF hasModifier(member, "PrivateKeyword") THEN <<"private">>
  ELSE IF hasModifier(member, "ProtectedKeyword") THEN <<"protected">>
  ELSE <<"public">>

getAccessModifier(member) ==
  IF hasModifier(member, "PrivateKeyword") THEN <<"private">>
  ELSE IF hasModifier(member, "ProtectedKeyword") THEN <<"protected">>
  ELSE IF hasModifier(member, "PublicKeyword") THEN <<"public">>
  ELSE <<>>

\* a member test that finds no field private
noPrivateField(member) == FALSE

\* <<>> is the null the code returns for a #private field
isPrivateField(member) ==
  member.kind = "PropertyDeclaration" /\ member.name.kind = "PrivateIdentifier"

\* a member extractor that resolves the type written on the member
extractClassMemberResolvingType(member) ==
  IF isPrivateField(member) THEN <<>>
  ELSE <<[kind |-> IF member.kind = "PropertyDeclaration" THEN "Property"
                   ELSE IF member.kind = "MethodDeclaration" THEN "Method"
                   ELSE "Constructor",
          typeAnnotation |-> IF Has(member, "type")
                             THEN extractTypeAnnotation(member.type, <<>>)
                             ELSE extractTypeAnnotation(member, <<>>)]
         @@ Opt("name", Has(member, "name"), member.name.text)
         @@ OptSeq("jsdoc", extractJsDoc(member))
         @@ Opt("parameters", member.kind \in {"Constructor", "MethodDeclaration"},
                [i \in 1..Len(member.parameters) |-> extractParameter(member.parameters[i])])
         @@ OptSeq("accessModifier", getAccessModifier(member))>>

extractClassMember(member) ==
  IF isPrivateField(member) THEN <<>>
  ELSE <<[kind |-> IF member.kind = "PropertyDeclaration" THEN "Property"
                   ELSE IF member.kind = "MethodDeclaration" THEN "Method"
                   ELSE "Constructor",
          typeAnnotation |-> extractTypeAnnotation(member, <<>>)]
         @@ Opt("name", Has(member, "name"), member.name.text)
         @@ OptSeq("jsdoc", extractJsDoc(member))
         @@ Opt("parameters", member.kind \in {"Constructor", "MethodDeclaration"},
                [i \in 1..Len(member.parameters) |-> extractParameter(member.parameters[i])])
         @@ OptSeq("accessModifier", getAccessModifier(member))>>

\* Array.prototype.find on the clauses, by the indices that satisfy the predicate
findClause(clauses, found) == IF found = {} THEN <<>> ELSE <<clauses[Min(found)]>>

\* a lookup that takes the first heritage clause, whatever its keyword
firstClauseOf(clauses) == findClause(clauses, DOMAIN clauses)

\* cls.heritageClauses?.find(clause => clause.token === ts.SyntaxKind.ExtendsKeyword)
extendsClauseOf(clauses) ==
  findClause(clauses, {i \in 1..Len(clauses) : clauses[i].token = "ExtendsKeyword"})

\* the text of the first type of the clause, if there is a clause with a type
extendsNameOf(extendsClause) ==
  IF extendsClause # <<>> /\ Len(extendsClause[1].types) > 0
  THEN <<extendsClause[1].types[1].expression>>
  ELSE <<>>

extractClass(cls) ==
  [kind |-> "Class",
   name |-> IF Has(cls, "name") THEN cls.name ELSE "anonymous",
   isAbstract |-> hasModifier(cls, "AbstractKeyword"),
   members |-> Flatten([i \in 1..Len(cls.members) |-> extractClassMember(cls.members[i])])]
  @@ OptSeq("extends", extendsNameOf(extendsClauseOf(
       IF Has(cls, "heritageClauses") THEN cls.heritageClauses ELSE <<>>)))
  @@ OptSeq("jsdoc", extractJsDoc(cls))

\* member.initializerType, when the member has an initializer, is the checker's
\* type of it; its value, when it is a literal type, is [typeof, repr]
\* enumValue?.value: <<>> (undefined) or <<[typeof, repr]>>
enumValueOf(member) ==
  IF Has(member, "initializerType") /\ Has(member.initializerType, "value")
  THEN <<member.initializerType.value>>
  ELSE <<>>

\* the callback of enumDecl.members.map, with enumValue?.value
enumMember(member, value) ==
  [name |-> member.name,
   typeAnnotation |->
     [kind |-> "PrimitiveType",
      literal |-> IF value # <<>> THEN value[1].typeof ELSE "undefined"]]
  @@ OptSeq("jsdoc", extractJsDoc(member))
  @@ Opt("value", value # <<>>, value[1].repr)

extractEnum(enumDecl) ==
  [kind |-> "Enum",
   name |-> enumDecl.name,
   members |-> [i \in 1..Len(enumDecl.members) |->
                  enumMember(enumDecl.members[i], enumValueOf(enumDecl.members[i]))]]
  @@ OptSeq("jsdoc", extractJsDoc(enumDecl))

\* an alias extractor that seeds the resolver with the alias's own tags, as
\* extractVariables does
extractTypeAliasWithTags(alias) ==
  [kind |-> "TypeAlias",
   name |-> alias.name,
   literal |-> printLiteral(alias)]
  @@ OptSeq("jsdoc", extractJsDoc(alias))
  @@ OptSeq("generics", extractGenerics(alias))
  @@ Opt("typeAnnotation", Has(alias, "type"),
         extractTypeAnnotation(alias.type, tagsOf(extractJsDoc(alias))))

extractTypeAlias(alias) ==
  [kind |-> "TypeAlias",
   name |-> alias.name,
   literal |-> printLiteral(alias)]
  @@ OptSeq("jsdoc", extractJsDoc(alias))
  @@ OptSeq("generics", extractGenerics(alias))
  @@ Opt("typeAnnotation", Has(alias, "type"), extractTypeAnnotation(alias.type, <<<<>>>>))

(***************************************************************************)
(* Driver.                                                                 *)
(***************************************************************************)
\* Every extractor calls extractJsDoc on its declaration once, and
\* extractVariables stores the object that one call returned in every element
\* it makes: the elements of invocation n refer to the JSDocInfo object n.
jsdocReferences(elements, n) ==
  [i \in 1..Len(elements) |-> IF Has(elements[i], "jsdoc") THEN <<n>> ELSE <<>>]

\* a dispatcher that has no case for enum declarations
extractNodeWithoutEnum(node) ==
  CASE node.kind = "VariableStatement" -> extractVariables(node)
    [] node.kind = "FunctionDeclaration" -> <<extractFunction(node)>>
    [] node.kind = "ClassDeclaration" -> <<extractClass(node)>>
    [] node.kind = "TypeAliasDeclaration" -> <<extractTypeAlias(node)>>
    [] OTHER -> <<>>

\* switch (node.kind) of extractNode; the callback pushes nothing for undefined
extractNode(node) ==
  CASE node.kind = "VariableStatement" -> extractVariables(node)
    [] node.kind = "FunctionDeclaration" -> <<extractFunction(node)>>
    [] node.kind = "ClassDeclaration" -> <<extractClass(node)>>
    [] node.kind = "EnumDeclaration" -> <<extractEnum(node)>>
    [] node.kind = "TypeAliasDeclaration" -> <<extractTypeAlias(node)>>
    [] OTHER -> <<>>

\* a load check that never reports a missing file
sourceFileAssumed(sf) == FALSE

\* if (!sourceFile)
sourceFileMissing(sf) == ~sf.found

\* ts.forEachChild(sourceFile, cb) visits the statements, then the end-of-file token
forEachChild(sf) == sf.statements \o <<sf.endOfFileToken>>

\* a collector that puts new items in front
unshift(arr, items) == items \o arr

\* extractedTypes.push(...items)
push(arr, items) == arr \o items

(***************************************************************************)
(* The consumer: the keys of the renderer's dispatch maps.                 *)
(***************************************************************************)
\* const typeAnnotationComponents = { PrimitiveType: ..., ... }
typeAnnotationComponents ==
  {"PrimitiveType", "TypeReference", "TypeLiteral", "Union", "Intersection", "FunctionType",
   "Tuple"}

\* const components = { Variable: ..., ... } of App
components == {"Variable", "Function", "Class", "Enum", "TypeAlias"}

(***************************************************************************)
(* Inputs: the syntax trees the model runs the extractor on.               *)
(***************************************************************************)
NoDoc == <<>>
Block(comment, tags) == [comment |-> comment, tags |-> tags]
\* /** */ : a documentation comment with an empty body
EmptyBodiedDoc == <<Block(UndefinedComment, <<>>)>>

\* the comment of an unknown tag "@property {s} <name> - <desc>"
PropertyText(name, desc) ==
  <<"{", "s", "}", " ">> \o name \o <<" ", "-", " ">> \o desc

PropertyTag(name, desc) ==
  [tagName |-> "property", comment |-> StringComment(PropertyText(name, desc))]

TagExample == [tagName |-> "example", comment |-> StringComment(<<"e">>)]
TagTag == [tagName |-> "tag", comment |-> StringComment(<<"-", " ", "t">>)]

\* tags written on the parent declaration of a type literal
ParentTagPool ==
  { PropertyTag(<<"a">>, <<"x">>),
    PropertyTag(<<"a">>, <<"-", " ", "y">>),
    PropertyTag(<<"b">>, <<"z">>),
    \* malformed: no {type}, so the pattern does not match
    [tagName |-> "property", comment |-> StringComment(<<"a", " ", "x">>)],
    [tagName |-> "param", name |-> <<"a">>,
     comment |-> StringComment(<<"-", " ", "p">>), typeExpression |-> <<"s">>] }

StringKeyword == [kind |-> "StringKeyword", typeString |-> "string"]
ArrayType == [kind |-> "ArrayType", typeString |-> "number[]"]
\* a reference to a declared type alias
AliasRef == [kind |-> "TypeReference", typeName |-> "Product", typeString |-> "Product",
             aliasSymbol |-> [name |-> "Product"]]
\* a reference the checker resolves to an alias under another written name
QualifiedAliasRef == [kind |-> "TypeReference", typeName |-> "NS.Product",
                      typeString |-> "Product", aliasSymbol |-> [name |-> "Product"]]
\* a reference to an interface: no alias symbol
InterfaceRef == [kind |-> "TypeReference", typeName |-> "Shape", typeString |-> "Shape"]

LeafTypes == {StringKeyword, ArrayType, AliasRef, QualifiedAliasRef, InterfaceRef}

\* (/** */ p) => number[]
Callback == [kind |-> "FunctionType", typeString |-> "(p) => number[]",
             parameters |-> <<[name |-> "p", jsDocs |-> EmptyBodiedDoc]>>, type |-> ArrayType]

Member(name, doc, type) == [kind |-> "PropertySignature", name |-> name, jsDocs |-> doc, type |-> type]
\* [key: string]: T has no name
IndexSignature(doc, type) == [kind |-> "IndexSignature", jsDocs |-> doc, type |-> type]

MemberPool ==
  { Member(<<"a">>, NoDoc, StringKeyword),
    Member(<<"a">>, <<Block(StringComment(<<"i">>), <<TagExample>>)>>, AliasRef),
    Member(<<"b">>, <<Block(PartsComment(<<[text |-> <<"i">>], [text |-> <<"j">>]>>), <<>>)>>,
           StringKeyword),
    Member(<<"b">>, <<Block(UndefinedComment, <<TagTag>>)>>, Callback),
    IndexSignature(EmptyBodiedDoc, StringKeyword) }

TypeLiteralOf(members) == [kind |-> "TypeLiteral", typeString |-> "{ ... }", members |-> members]

Param(name, doc) == [name |-> name, jsDocs |-> doc]
TypedParam(name, doc, type) == [name |-> name, jsDocs |-> doc, type |-> type]

\* composite type expressions over a set S of constituents
UnionsOver(S) == {[kind |-> "UnionType", typeString |-> "A | B", types |-> ts] :
                    ts \in SeqsOf(S, 2, MaxArity)}
IntersectionsOver(S) == {[kind |-> "IntersectionType", typeString |-> "A & B", types |-> ts] :
                           ts \in SeqsOf(S, 2, MaxArity)}
TuplesOver(S) == {[kind |-> "TupleType", typeString |-> "[A, B]", elements |-> ts] :
                    ts \in SeqsOf(S, 0, MaxArity)}
FunctionsOver(S) ==
  {[kind |-> "FunctionType", typeString |-> "(p: A) => B",
    parameters |-> <<TypedParam("p", NoDoc, t)>>, type |-> t] : t \in S}
  \cup {[kind |-> "FunctionType", typeString |-> "<T>(p) => B", parameters |-> <<Param("p", NoDoc)>>,
         typeParameters |-> <<[name |-> "T", constraint |-> "string"]>>, type |-> t] : t \in S}
GenericRefsOver(S) ==
  {[kind |-> "TypeReference", typeName |-> "Box", typeString |-> "Box<A>",
    aliasSymbol |-> [name |-> "Box"], typeArguments |-> <<t>>] : t \in S}
LiteralsOver(S) ==
  {TypeLiteralOf(<<Member(<<"a">>, NoDoc, t)>>) : t \in S}
  \cup {TypeLiteralOf(<<Member(<<"b">>, NoDoc, t), Member(<<"a">>, EmptyBodiedDoc, t)>>) : t \in S}

CompositesOver(S) ==
  UnionsOver(S) \cup IntersectionsOver(S) \cup TuplesOver(S) \cup FunctionsOver(S)
  \cup GenericRefsOver(S) \cup LiteralsOver(S)

\* one composite of every kind, to nest inside another
NestedSample ==
  { [kind |-> "UnionType", typeString |-> "A | B", types |-> <<AliasRef, StringKeyword>>],
    [kind |-> "TupleType", typeString |-> "[A, B]", elements |-> <<StringKeyword, StringKeyword>>],
    TypeLiteralOf(<<Member(<<"a">>, NoDoc, StringKeyword)>>),
    [kind |-> "FunctionType", typeString |-> "(p: A) => B",
     parameters |-> <<TypedParam("p", NoDoc, TypeLiteralOf(<<Member(<<"a">>, NoDoc, AliasRef)>>))>>,
     type |-> TypeLiteralOf(<<Member(<<"a">>, NoDoc, StringKeyword)>>)] }

TypeNodes == LeafTypes \cup CompositesOver(LeafTypes) \cup CompositesOver(NestedSample)

Decl(name) == [name |-> name, printed |-> <<name>>]
TypedDecl(name, type) == [name |-> name, printed |-> <<name, ": ", type.typeString>>, type |-> type]

VariableStatement(doc, declarations) ==
  [kind |-> "VariableStatement", jsDocs |-> doc, declarations |-> declarations]

DescDoc == <<Block(StringComment(<<"-", " ", "d">>), <<TagTag>>)>>

ProductAlias ==
  [kind |-> "TypeAliasDeclaration", name |-> "Product",
   jsDocs |-> <<Block(StringComment(<<"d">>), <<PropertyTag(<<"a">>, <<"x">>)>>)>>,
   printed |-> <<"export type ", "Product = { ... }">>,
   type |-> TypeLiteralOf(<<Member(<<"a">>, NoDoc, StringKeyword),
                            Member(<<"b">>, DescDoc, AliasRef)>>)]

FunctionDecl(doc) ==
  [kind |-> "FunctionDeclaration", name |-> "f", jsDocs |-> doc,
   parameters |-> <<TypedParam("p", NoDoc, AliasRef), Param("q", NoDoc)>>,
   type |-> AliasRef,
   typeParameters |-> <<[name |-> "T", constraint |-> "string", default |-> "string"]>>]

\* export default function () {}
AnonymousFunction ==
  [kind |-> "FunctionDeclaration", jsDocs |-> NoDoc, parameters |-> <<>>]

ClassDecl ==
  [kind |-> "ClassDeclaration", name |-> "C", jsDocs |-> DescDoc,
   modifiers |-> <<"ExportKeyword", "AbstractKeyword">>,
   heritageClauses |-> <<[token |-> "ImplementsKeyword", types |-> <<[expression |-> "Shape"]>>],
                         [token |-> "ExtendsKeyword", types |-> <<[expression |-> "Base"]>>]>>,
   members |->
     <<[kind |-> "PropertyDeclaration", name |-> [kind |-> "PrivateIdentifier", text |-> "#s"],
        jsDocs |-> NoDoc, typeString |-> "string"],
       [kind |-> "PropertyDeclaration", name |-> [kind |-> "Identifier", text |-> "x"],
        modifiers |-> <<"PrivateKeyword", "ReadonlyKeyword">>,
        jsDocs |-> DescDoc, typeString |-> "Product"],
       [kind |-> "Constructor", jsDocs |-> NoDoc, typeString |-> "any",
        parameters |-> <<TypedParam("p", NoDoc, AliasRef)>>],
       [kind |-> "MethodDeclaration", name |-> [kind |-> "Identifier", text |-> "m"],
        modifiers |-> <<"PublicKeyword">>, jsDocs |-> EmptyBodiedDoc,
        typeString |-> "() => void", parameters |-> <<>>]>>]

EnumDecl ==
  [kind |-> "EnumDeclaration", name |-> "E", jsDocs |-> NoDoc,
   members |-> <<[name |-> "A", jsDocs |-> NoDoc],
                 [name |-> "B", jsDocs |-> DescDoc,
                  initializerType |-> [value |-> [typeof |-> "number", repr |-> "1"]]],
                 [name |-> "C", jsDocs |-> NoDoc,
                  initializerType |-> [value |-> [typeof |-> "string", repr |-> "c"]]]>>]

\* a class declaration head: modifiers and heritageClauses are each <<>> (the
\* node has none) or <<the list>>
ClassOf(modifiers, heritageClauses, members) ==
  [kind |-> "ClassDeclaration", name |-> "K", jsDocs |-> NoDoc, members |-> members]
  @@ OptSeq("modifiers", modifiers)
  @@ OptSeq("heritageClauses", heritageClauses)

ImplementsShape == [token |-> "ImplementsKeyword", types |-> <<[expression |-> "Shape"]>>]
ExtendsBase == [token |-> "ExtendsKeyword", types |-> <<[expression |-> "Base"]>>]
\* "class K extends {": the parser keeps an extends clause without a type
ExtendsNothing == [token |-> "ExtendsKeyword", types |-> <<>>]

ClassModifierOptions ==
  { <<>>, <<<<"ExportKeyword">>>>, <<<<"AbstractKeyword">>>>,
    <<<<"ExportKeyword", "AbstractKeyword">>>> }

HeritageOptions ==
  { <<>>, <<<<ImplementsShape>>>>, <<<<ExtendsBase>>>>, <<<<ExtendsBase, ImplementsShape>>>>,
    <<<<ImplementsShape, ExtendsBase>>>>, <<<<ExtendsNothing>>>> }

ClassMember(kind, name, modifiers) ==
  [kind |-> kind, name |-> name, jsDocs |-> NoDoc, typeString |-> "string"]
  @@ OptSeq("modifiers", modifiers)
  @@ Opt("parameters", kind = "MethodDeclaration", <<>>)

Identifier(text) == [kind |-> "Identifier", text |-> text]
PrivateIdentifier(text) == [kind |-> "PrivateIdentifier", text |-> text]

\* class members: #private fields and a #private method, members under every
\* access keyword, under two of them, and under none, an accessor and a
\* constructor
ClassMemberPool ==
  { ClassMember("PropertyDeclaration", PrivateIdentifier("#s"), <<>>),
    ClassMember("PropertyDeclaration", PrivateIdentifier("#t"), <<<<"ReadonlyKeyword">>>>),
    ClassMember("MethodDeclaration", PrivateIdentifier("#m"), <<>>),
    ClassMember("PropertyDeclaration", Identifier("x"), <<>>),
    ClassMember("PropertyDeclaration", Identifier("y"), <<<<"ReadonlyKeyword">>>>),
    ClassMember("PropertyDeclaration", Identifier("p"), <<<<"PrivateKeyword">>>>),
    ClassMember("MethodDeclaration", Identifier("q"), <<<<"ProtectedKeyword", "StaticKeyword">>>>),
    ClassMember("MethodDeclaration", Identifier("r"), <<<<"PublicKeyword">>>>),
    ClassMember("PropertyDeclaration", Identifier("u"), <<<<"PublicKeyword", "PrivateKeyword">>>>),
    ClassMember("PropertyDeclaration", Identifier("w"), <<<<"PublicKeyword", "ProtectedKeyword">>>>),
    \* get g(): string
    ClassMember("GetAccessor", Identifier("g"), <<>>),
    \* constructor()
    [kind |-> "Constructor", jsDocs |-> NoDoc, typeString |-> "any", parameters |-> <<>>] }

\* declare enum Auto { A, B }: no member has an initializer
AutoEnum ==
  [kind |-> "EnumDeclaration", name |-> "Auto", jsDocs |-> NoDoc,
   members |-> <<[name |-> "A", jsDocs |-> NoDoc], [name |-> "B", jsDocs |-> NoDoc]>>]

\* top-level constructs outside the five extracted categories
OtherKinds == {"InterfaceDeclaration", "ImportDeclaration", "ExportAssignment", "ModuleDeclaration"}

TwoNames == <<TypedDecl("v", AliasRef), Decl("w")>>

\* the statements of the generated multi-statement files
StatementPool ==
  { VariableStatement(doc, TwoNames) : doc \in {NoDoc, EmptyBodiedDoc, DescDoc} }
  \cup { FunctionDecl(doc) : doc \in {NoDoc, EmptyBodiedDoc} }
  \cup { AnonymousFunction, ClassDecl, EnumDecl, AutoEnum, ProductAlias }
  \cup { [kind |-> k, jsDocs |-> DescDoc] : k \in {"InterfaceDeclaration", "ImportDeclaration"} }

EndOfFileToken == [kind |-> "EndOfFileToken", jsDocs |-> NoDoc]

SourceFileOf(statements) ==
  [found |-> TRUE, statements |-> statements, endOfFileToken |-> EndOfFileToken]

\* program.getSourceFile returned undefined
NotLoaded == [found |-> FALSE]

\* files of up to MaxDecls statements
MultiStatementFiles == {SourceFileOf(ss) : ss \in SeqsOf(StatementPool, 0, MaxDecls)}

\* one variable whose annotation is any generated type expression, under a
\* documentation block that carries a property tag
TypedVariableFiles ==
  {SourceFileOf(<<VariableStatement(
       <<Block(UndefinedComment, <<PropertyTag(<<"a">>, <<"x">>)>>)>>, <<TypedDecl("v", t)>>)>>) :
     t \in TypeNodes}

\* one variable whose annotation is a type literal, under every short sequence
\* of parent-level tags
TaggedLiteralFiles ==
  {SourceFileOf(<<VariableStatement(
       <<Block(StringComment(<<"d">>), tags)>>, <<TypedDecl("v", TypeLiteralOf(members))>>)>>) :
     tags \in SeqsOf(ParentTagPool, 0, MaxTags),
     members \in SeqsOf(MemberPool, 0, MaxMembers)}

\* tags that have no name: @example, @tag and a malformed @property
NamelessTagPool ==
  { TagExample, TagTag,
    [tagName |-> "property", comment |-> StringComment(<<"a", " ", "x">>)] }

\* one variable whose type literal has an index signature and a named member,
\* under every short sequence of tags without a name
IndexedLiteralFiles ==
  {SourceFileOf(<<VariableStatement(
       <<Block(UndefinedComment, tags)>>,
       <<TypedDecl("v", TypeLiteralOf(<<IndexSignature(doc, StringKeyword),
                                        Member(<<"a">>, NoDoc, StringKeyword)>>))>>)>>) :
     tags \in SeqsOf(NamelessTagPool, 1, MaxTags),
     doc \in {NoDoc, <<Block(StringComment(<<"i">>), <<>>)>>}}

\* function g(p: { a: string }): { a: string }, documented with tags named a
TaggedFunction ==
  [kind |-> "FunctionDeclaration", name |-> "g",
   jsDocs |-> <<Block(UndefinedComment,
                      <<PropertyTag(<<"a">>, <<"x">>),
                        [tagName |-> "param", name |-> <<"a">>,
                         comment |-> StringComment(<<"p">>), typeExpression |-> <<"s">>]>>)>>,
   parameters |-> <<TypedParam("p", NoDoc,
                               TypeLiteralOf(<<Member(<<"a">>, NoDoc, StringKeyword)>>))>>,
   type |-> TypeLiteralOf(<<Member(<<"a">>, EmptyBodiedDoc, StringKeyword)>>)]

TaggedFunctionFiles == {SourceFileOf(<<TaggedFunction>>)}

\* a class member with a written type: typeString is what the checker renders
\* for the member, type is the type node written on it
TypedClassMember(kind, name, type, typeString) ==
  [kind |-> kind, name |-> Identifier(name), jsDocs |-> NoDoc, typeString |-> typeString,
   type |-> type]
  @@ Opt("parameters", kind = "MethodDeclaration", <<>>)

\* members whose written type is a type literal, an alias reference, a union
\* and (a method's return type) a function type, and a constructor, which has
\* no written type
TypedClassMemberPool ==
  { TypedClassMember("PropertyDeclaration", "l",
                     TypeLiteralOf(<<Member(<<"a">>, NoDoc, StringKeyword)>>), "{ a: string; }"),
    TypedClassMember("PropertyDeclaration", "r", AliasRef, "Product"),
    TypedClassMember("PropertyDeclaration", "u",
                     [kind |-> "UnionType", typeString |-> "A | B",
                      types |-> <<AliasRef, StringKeyword>>], "A | B"),
    TypedClassMember("MethodDeclaration", "f", Callback, "() => (p) => number[]"),
    [kind |-> "Constructor", jsDocs |-> NoDoc, typeString |-> "any", parameters |-> <<>>] }

TypedClassFiles ==
  {SourceFileOf(<<ClassOf(<<>>, <<>>, ms)>>) : ms \in SeqsOf(TypedClassMemberPool, 1, MaxMembers)}

\* one class under every head, and one class over every short sequence of members
ClassFiles ==
  {SourceFileOf(<<ClassOf(m, h, <<>>)>>) : m \in ClassModifierOptions, h \in HeritageOptions}
  \cup {SourceFileOf(<<ClassOf(<<>>, <<>>, ms)>>) : ms \in SeqsOf(ClassMemberPool, 1, MaxMembers)}

\* type T = { ... } under a documentation block with tags
AliasOf(tags, members) ==
  [kind |-> "TypeAliasDeclaration", name |-> "T",
   jsDocs |-> <<Block(StringComment(<<"d">>), tags)>>,
   printed |-> <<"export type ", "T = { ... }">>,
   type |-> TypeLiteralOf(members)]

\* one alias of a one-member type literal, under every short sequence of tags
AliasFiles ==
  {SourceFileOf(<<AliasOf(tags, members)>>) :
     tags \in SeqsOf(ParentTagPool, 0, MaxTags), members \in SeqsOf(MemberPool, 1, 1)}

\* comments of @property tags around the edges of the pattern
PropertyCommentPool ==
  { \* runs of blanks, and a trailing blank
    StringComment(<<"{", "s", "}", " ", " ", "a", " ", " ", "-", " ", " ", "x", " ">>),
    \* no blank after the dash: no match
    StringComment(<<"{", "s", "}", " ", "a", " ", "-", "x">>),
    \* a dash inside the name
    StringComment(<<"{", "s", "}", " ", "a", "-", "b", " ", "-", " ", "x">>),
    \* a dash inside the description
    StringComment(<<"{", "s", "}", " ", "a", " ", "-", " ", "b", " ", "-", " ", "c">>),
    \* a blank inside the braces: no match
    StringComment(<<"{", "a", " ", "b", "}", " ", "c", " ", "-", " ", "d">>),
    \* a leading dash, which extractComment strips first
    StringComment(<<"-", " ", "{", "s", "}", " ", "a", " ", "-", " ", "x">>),
    \* empty braces: no match
    StringComment(<<"{", "}", " ", "a", " ", "-", " ", "x">>),
    \* a closing brace inside the type
    StringComment(<<"{", "s", "}", "}", " ", "a", " ", "-", " ", "x">>),
    \* a dash as the name
    StringComment(<<"{", "s", "}", " ", "-", " ", "-", " ", "x">>),
    \* an empty description
    StringComment(<<"{", "s", "}", " ", "a", " ", "-", " ">>),
    \* no dash: no match
    StringComment(<<"{", "s", "}", " ", "a">>),
    \* no blank after the braces: no match
    StringComment(<<"{", "s", "}", "a", " ", "-", " ", "x">>),
    \* the comment as parts, joined to "{s} a - x"
    PartsComment(<<[text |-> <<"{", "s", "}">>], [text |-> <<"a", " ", "-", " ", "x">>]>>),
    \* @property alone
    UndefinedComment }

\* one variable under a documentation block with one @property tag
PropertyTagFiles ==
  {SourceFileOf(<<VariableStatement(
       <<Block(UndefinedComment, <<[tagName |-> "property", comment |-> c]>>)>>,
       <<Decl("v")>>)>>) : c \in PropertyCommentPool}

\* a file whose only top-level construct is not one of the five categories
OtherFiles == {SourceFileOf(<<[kind |-> k, jsDocs |-> NoDoc]>>) : k \in OtherKinds}

SourceFiles ==
  {NotLoaded} \cup MultiStatementFiles \cup TypedVariableFiles \cup TaggedLiteralFiles
  \cup OtherFiles \cup ClassFiles \cup AliasFiles \cup PropertyTagFiles
  \cup IndexedLiteralFiles \cup TaggedFunctionFiles \cup TypedClassFiles

(***************************************************************************)
(* parseDeclarationFile, one step per statement of its body.               *)
(***************************************************************************)
Init ==
  /\ pc = "start"
  /\ sourceFile \in SourceFiles
  /\ idx = 1
  /\ extractedTypes = <<>>
  /\ origin = <<>>
  /\ calls = 0
  /\ console = <<>>
  /\ returned = <<>>
  /\ runs = <<>>
  /\ jsdocRef = <<>>
  /\ frames = <<>>
  /\ walkRoot = StringKeyword
  /\ ncalls = 0

\* the program has no source file for the path: report, return []
FileNotFound ==
  /\ pc = "start"
  /\ sourceFileMissing(sourceFile)
  /\ console' = Append(console, "File not found or could not be loaded.")
  /\ returned' = << <<>> >>
  /\ runs' = Append(runs, [input |-> sourceFile, output |-> <<>>])
  /\ pc' = "done"
  /\ UNCHANGED <<sourceFile, idx, extractedTypes, origin, calls, jsdocRef>>
  /\ UNCHANGED walkVars

\* a driver that collects into an array that outlives the call
FileLoadedKeepingArray ==
  /\ pc = "start"
  /\ ~sourceFileMissing(sourceFile)
  /\ pc' = "walk"
  /\ UNCHANGED <<sourceFile, idx, extractedTypes, origin, calls, console, returned, runs,
                 jsdocRef>>
  /\ UNCHANGED walkVars

\* the source file is there: create the checker and the result array
FileLoaded ==
  /\ pc = "start"
  /\ ~sourceFileMissing(sourceFile)
  /\ extractedTypes' = <<>>
  /\ pc' = "walk"
  /\ UNCHANGED <<sourceFile, idx, origin, calls, console, returned, runs, jsdocRef>>
  /\ UNCHANGED walkVars

\* one call of the ts.forEachChild callback; forEachChild reads the kind of its
\* node, which throws a TypeError on undefined
VisitChild ==
  /\ pc = "walk"
  /\ IF ~sourceFile.found
     THEN /\ pc' = "threw"
          /\ UNCHANGED <<sourceFile, idx, extractedTypes, origin, calls, console, returned, runs,
                         jsdocRef>>
     ELSE /\ idx <= Len(forEachChild(sourceFile))
          /\ extractedTypes' = push(extractedTypes, extractNode(forEachChild(sourceFile)[idx]))
          /\ origin' = origin \o [i \in 1..(Len(extractedTypes') - Len(extractedTypes)) |-> idx]
          /\ jsdocRef' = jsdocRef \o jsdocReferences(extractNode(forEachChild(sourceFile)[idx]),
                                                      calls + 1)
          /\ calls' = calls + 1
          /\ idx' = idx + 1
          /\ UNCHANGED <<pc, sourceFile, console, returned, runs>>
  /\ UNCHANGED walkVars

\* every child was visited: return extractedTypes
Return ==
  /\ pc = "walk"
  /\ sourceFile.found
  /\ idx > Len(forEachChild(sourceFile))
  /\ returned' = <<extractedTypes>>
  /\ runs' = Append(runs, [input |-> sourceFile, output |-> extractedTypes])
  /\ pc' = "done"
  /\ UNCHANGED <<sourceFile, idx, extractedTypes, origin, calls, console, jsdocRef>>
  /\ UNCHANGED walkVars

Next == FileNotFound \/ FileLoaded \/ VisitChild \/ Return

Spec == Init /\ [][Next]_vars

(***************************************************************************)
(* Several calls of parseDeclarationFile in one process, each on any file. *)
(***************************************************************************)
\* the files of the repeated calls: the missing file and every one-statement file
RerunFiles == {NotLoaded} \cup {SourceFileOf(<<st>>) : st \in StatementPool}

InitRuns == Init /\ sourceFile \in RerunFiles

\* the caller calls parseDeclarationFile again; the locals of the finished call
\* are gone, what console.error printed stays
RunAgain ==
  /\ pc = "done"
  /\ Len(runs) < MaxRuns
  /\ sourceFile' \in RerunFiles
  /\ pc' = "start"
  /\ idx' = 1
  /\ origin' = <<>>
  /\ jsdocRef' = <<>>
  /\ calls' = 0
  /\ returned' = <<>>
  /\ UNCHANGED <<extractedTypes, console, runs>>
  /\ UNCHANGED walkVars

NextRuns == Next \/ RunAgain

SpecRuns == InitRuns /\ [][NextRuns]_vars

(***************************************************************************)
(* The calls of extractTypeAnnotation, one step per call and per return:   *)
(* a frame is one active call, next the index of the nested call it makes  *)
(* next.                                                                   *)
(***************************************************************************)
\* the written types of members or parameters (member.type, param.type)
typesOf(nodes) ==
  Flatten([i \in 1..Len(nodes) |-> IF Has(nodes[i], "type") THEN <<nodes[i].type>> ELSE <<>>])

\* what the checker knows of the program's aliases: the declared type of each
\*   type List = { next: List };  type Even = { odd: Odd } | string;
\*   type Odd = [Even];           type Product = { a: string }
ListRef == [kind |-> "TypeReference", typeName |-> "List", typeString |-> "List",
            aliasSymbol |-> [name |-> "List"]]
EvenRef == [kind |-> "TypeReference", typeName |-> "Even", typeString |-> "Even",
            aliasSymbol |-> [name |-> "Even"]]
OddRef == [kind |-> "TypeReference", typeName |-> "Odd", typeString |-> "Odd",
           aliasSymbol |-> [name |-> "Odd"]]

declaredTypeOf(aliasName) ==
  CASE aliasName = "List" -> TypeLiteralOf(<<Member(<<"n">>, NoDoc, ListRef)>>)
    [] aliasName = "Even" ->
         [kind |-> "UnionType", typeString |-> "Even",
          types |-> <<TypeLiteralOf(<<Member(<<"o">>, NoDoc, OddRef)>>), StringKeyword>>]
    [] aliasName = "Odd" -> [kind |-> "TupleType", typeString |-> "Odd", elements |-> <<EvenRef>>]
    [] OTHER -> TypeLiteralOf(<<Member(<<"a">>, NoDoc, StringKeyword)>>)

\* a resolver that expands a reference to an alias into the alias's declared type
nestedCallsExpandingAliases(typeNode) ==
  CASE typeNode.kind = "TypeLiteral" -> typesOf(typeNode.members)
    [] typeNode.kind = "FunctionType" -> typesOf(typeNode.parameters) \o <<typeNode.type>>
    [] typeNode.kind = "TypeReference" ->
         (IF Has(typeNode, "aliasSymbol")
          THEN <<declaredTypeOf(typeNode.aliasSymbol.name)>> ELSE <<>>)
         \o (IF Has(typeNode, "typeArguments") THEN typeNode.typeArguments ELSE <<>>)
    [] typeNode.kind = "TupleType" -> typeNode.elements
    [] typeNode.kind = "IntersectionType" -> typeNode.types
    [] typeNode.kind = "UnionType" -> typeNode.types
    [] OTHER -> <<>>

\* the type nodes a call on typeNode hands to extractTypeAnnotation, directly or
\* through extractTypeLiteralMember and extractParameter, in call order
nestedCalls(typeNode) ==
  CASE typeNode.kind = "TypeLiteral" -> typesOf(typeNode.members)
    [] typeNode.kind = "FunctionType" -> typesOf(typeNode.parameters) \o <<typeNode.type>>
    [] typeNode.kind = "TypeReference" ->
         IF Has(typeNode, "typeArguments") THEN typeNode.typeArguments ELSE <<>>
    [] typeNode.kind = "TupleType" -> typeNode.elements
    [] typeNode.kind = "IntersectionType" -> typeNode.types
    [] typeNode.kind = "UnionType" -> typeNode.types
    [] OTHER -> <<>>

\* the expressions the walk starts from: every generated type expression, the
\* references to the recursive aliases, and the bodies of those aliases
WalkRoots ==
  TypeNodes \cup {ListRef, EvenRef, OddRef}
  \cup {declaredTypeOf(n) : n \in {"List", "Even", "Odd"}}
  \cup CompositesOver({ListRef, EvenRef})

InitWalk ==
  /\ pc = "resolve"
  /\ sourceFile = NotLoaded
  /\ idx = 1
  /\ extractedTypes = <<>>
  /\ origin = <<>>
  /\ calls = 0
  /\ console = <<>>
  /\ returned = <<>>
  /\ runs = <<>>
  /\ jsdocRef = <<>>
  /\ walkRoot \in WalkRoots
  /\ frames = <<[node |-> walkRoot, next |-> 1]>>
  /\ ncalls = 1

Top == frames[Len(frames)]

\* the active call makes its next nested call
Call ==
  /\ frames # <<>>
  /\ Top.next <= Len(nestedCalls(Top.node))
  /\ frames' = Append([frames EXCEPT ![Len(frames)].next = @ + 1],
                      [node |-> nestedCalls(Top.node)[Top.next], next |-> 1])
  /\ ncalls' = ncalls + 1
  /\ UNCHANGED walkRoot
  /\ UNCHANGED driverVars

\* the active call has made all its nested calls and returns its annotation
ReturnAnnotation ==
  /\ frames # <<>>
  /\ Top.next > Len(nestedCalls(Top.node))
  /\ frames' = SubSeq(frames, 1, Len(frames) - 1)
  /\ UNCHANGED <<walkRoot, ncalls>>
  /\ UNCHANGED driverVars

NextWalk == Call \/ ReturnAnnotation

\* the calls run on one thread, one after the other: a call that can step does
SpecWalk == InitWalk /\ [][NextWalk]_vars /\ WF_vars(NextWalk)

(***************************************************************************)
(* Observations the properties are stated with.                            *)
(***************************************************************************)
\* the immediate children of the loaded file, in source order
SourceChildren ==
  IF sourceFile.found THEN sourceFile.statements \o <<sourceFile.endOfFileToken>> ELSE <<>>

\* the children the callback has been given so far
Visited == 1..(idx - 1)

\* the elements collected from child c, in output order
ElementsOf(c) == FilterIdx(extractedTypes, {i \in 1..Len(origin) : origin[i] = c}, 1)

FieldOr(r, f, d) == IF Has(r, f) THEN r[f] ELSE d

SeqMin(a, b) == IF Len(a) <= Len(b) THEN Len(a) ELSE Len(b)

\* every (type node, annotation made for it) at or below a type node
RECURSIVE PairsUnder(_, _)
PairsOfTyped(nodes, holders) ==
  UNION {PairsUnder(nodes[i].type, holders[i].typeAnnotation) :
           i \in {j \in 1..SeqMin(nodes, holders) :
                    Has(nodes[j], "type") /\ Has(holders[j], "typeAnnotation")}}
PairsOfSeq(nodes, anns) ==
  UNION {PairsUnder(nodes[i], anns[i]) : i \in 1..SeqMin(nodes, anns)}
PairsUnder(node, ann) ==
  {[node |-> node, ann |-> ann]}
  \cup (IF node.kind = "TypeLiteral" /\ Has(ann, "members")
        THEN PairsOfTyped(node.members, ann.members) ELSE {})
  \cup (IF node.kind = "FunctionType" /\ Has(ann, "parameters")
        THEN PairsOfTyped(node.parameters, ann.parameters) ELSE {})
  \cup (IF node.kind = "FunctionType" /\ Has(ann, "returnType")
        THEN PairsUnder(node.type, ann.returnType) ELSE {})
  \cup (IF Has(node, "typeArguments") /\ Has(ann, "parameters")
        THEN PairsOfSeq(node.typeArguments, ann.parameters) ELSE {})
  \cup (IF Has(node, "elements") /\ Has(ann, "types")
        THEN PairsOfSeq(node.elements, ann.types) ELSE {})
  \cup (IF Has(node, "types") /\ Has(ann, "types")
        THEN PairsOfSeq(node.types, ann.types) ELSE {})

\* the class members that are not #private fields
PublicMembers(cls) ==
  FilterIdx(cls.members,
            {i \in 1..Len(cls.members) :
               ~(cls.members[i].kind = "PropertyDeclaration"
                 /\ cls.members[i].name.kind = "PrivateIdentifier")}, 1)

\* the pairs of one top-level child and the elements collected from it
PairsOfChild(node, elements) ==
  CASE node.kind = "VariableStatement" -> PairsOfTyped(node.declarations, elements)
    [] node.kind = "TypeAliasDeclaration" -> PairsOfTyped(<<node>>, elements)
    [] node.kind = "FunctionDeclaration" ->
         IF elements = <<>> THEN {}
         ELSE PairsOfTyped(node.parameters, FieldOr(elements[1], "parameters", <<>>))
              \cup (IF Has(node, "type") /\ Has(elements[1], "returnType")
                    THEN PairsUnder(node.type, elements[1].returnType) ELSE {})
    [] node.kind = "ClassDeclaration" ->
         IF elements = <<>> THEN {}
         ELSE LET nodes == PublicMembers(node)
                  members == FieldOr(elements[1], "members", <<>>)
              IN UNION {{[node |-> nodes[i], ann |-> members[i].typeAnnotation]}
                        \cup PairsOfTyped(FieldOr(nodes[i], "parameters", <<>>),
                                          FieldOr(members[i], "parameters", <<>>)) :
                          i \in 1..SeqMin(nodes, members)}
    [] OTHER -> {}

\* every (node, annotation) pair of the output so far
AllPairs == UNION {PairsOfChild(SourceChildren[c], ElementsOf(c)) : c \in Visited}

\* the pairs whose node is a type literal
LiteralPairs == {p \in AllPairs : p.node.kind = "TypeLiteral"}

(***************************************************************************)
(* C1: the Element sequence lists elements in the order of the source's    *)
(* top-level declarations (element i comes from a declaration that is not  *)
(* later than the declaration of element i+1), and the members of every    *)
(* TypeLiteral annotation have the length and order of the source type     *)
(* literal's members.                                                      *)
(***************************************************************************)
\* the names a top-level child declares, in source order
DeclaredNames(node) ==
  CASE node.kind = "VariableStatement" ->
         [i \in 1..Len(node.declarations) |-> node.declarations[i].name]
    [] node.kind \in {"FunctionDeclaration", "ClassDeclaration", "EnumDeclaration",
                      "TypeAliasDeclaration"} -> <<FieldOr(node, "name", "anonymous")>>
    [] OTHER -> <<>>

MemberNames(members) == [i \in 1..Len(members) |-> FieldOr(members[i], "name", <<>>)]

C1_OrderPreserved ==
  /\ \A i \in 1..(Len(origin) - 1) : origin[i] <= origin[i + 1]
  /\ \A c \in Visited :
       [i \in 1..Len(ElementsOf(c)) |-> ElementsOf(c)[i].name] = DeclaredNames(SourceChildren[c])
  /\ \A i \in 1..Len(origin) : origin[i] \in Visited
  /\ \A p \in LiteralPairs :
       /\ Has(p.ann, "members")
       /\ MemberNames(p.ann.members) = MemberNames(p.node.members)

\* a finished run over two declarations, the second of which has a type literal
\* of two differently named members
C1_Witness ==
  /\ pc = "done" /\ sourceFile.found
  /\ Len(extractedTypes) >= 3
  /\ \E i \in 1..(Len(origin) - 1) : origin[i] < origin[i + 1]
  /\ \E p \in LiteralPairs :
       Len(p.node.members) = 2 /\ p.node.members[1].name # p.node.members[2].name

(***************************************************************************)
(* C2: each immediate top-level node contributes by category: a variable   *)
(* statement its Variable elements, a function, class, enum or type-alias  *)
(* declaration exactly one element of the matching kind, anything else     *)
(* nothing (and no error); the output is the concatenation.                *)
(***************************************************************************)
ExpectedKinds(node) ==
  CASE node.kind = "VariableStatement" -> [i \in 1..Len(node.declarations) |-> "Variable"]
    [] node.kind = "FunctionDeclaration" -> <<"Function">>
    [] node.kind = "ClassDeclaration" -> <<"Class">>
    [] node.kind = "EnumDeclaration" -> <<"Enum">>
    [] node.kind = "TypeAliasDeclaration" -> <<"TypeAlias">>
    [] OTHER -> <<>>

C2_DispatchByCategory ==
  /\ pc # "threw"
  /\ [i \in 1..Len(extractedTypes) |-> extractedTypes[i].kind]
       = Flatten([c \in 1..(idx - 1) |-> ExpectedKinds(SourceChildren[c])])
  /\ pc = "done" /\ sourceFile.found => returned = <<extractedTypes>>

\* an interface was visited and contributed nothing, after a declaration that
\* contributed an element
C2_Witness ==
  /\ pc = "done" /\ sourceFile.found
  /\ Len(sourceFile.statements) = 2
  /\ sourceFile.statements[1].kind = "EnumDeclaration"
  /\ sourceFile.statements[2].kind = "InterfaceDeclaration"
  /\ Len(extractedTypes) = 1

(***************************************************************************)
(* C3: when the path has no loadable source file, parseDeclarationFile     *)
(* reports the failure and returns an empty sequence; it does not raise    *)
(* and no extractor is invoked.                                            *)
(***************************************************************************)
C3_UnloadableInput ==
  ~sourceFile.found =>
    /\ pc \in {"start", "done"}
    /\ calls = 0
    /\ extractedTypes = <<>>
    /\ pc = "done" =>
         /\ returned = << <<>> >>
         /\ console = <<"File not found or could not be loaded.">>

C3_Witness == ~sourceFile.found /\ pc = "done" /\ returned = << <<>> >>


(***************************************************************************)
(* Observations on documentation.                                          *)
(***************************************************************************)
\* <<>> or <<the JSDocInfo of an output record>>
JsDocOf(holder) == IF Has(holder, "jsdoc") THEN <<holder.jsdoc>> ELSE <<>>

TagsOfInfo(info) == IF info = <<>> THEN <<>> ELSE info[1].tags
DescriptionOfInfo(info) == IF info = <<>> THEN <<>> ELSE info[1].description

\* the node's documentation has a description or a tag
HasDocContent(node) ==
  \/ \E i \in 1..Len(node.jsDocs) : node.jsDocs[i].tags # <<>>
  \/ orUndefined(extractComment(firstComment(node))) # <<>>

\* the visited variable declarations annotated with a type literal, each with
\* the element made for it
LiteralVariables ==
  UNION {{[element |-> ElementsOf(c)[i], literal |-> SourceChildren[c].declarations[i].type] :
            i \in {j \in 1..SeqMin(SourceChildren[c].declarations, ElementsOf(c)) :
                     /\ Has(SourceChildren[c].declarations[j], "type")
                     /\ SourceChildren[c].declarations[j].type.kind = "TypeLiteral"
                     /\ Has(ElementsOf(c)[j], "typeAnnotation")
                     /\ Has(ElementsOf(c)[j].typeAnnotation, "members")}} :
         c \in {d \in Visited : SourceChildren[d].kind = "VariableStatement"}}

\* every member of those literals: the parent element's tags, the member's
\* documentation as written, its name, and the JSDocInfo of the output member
MemberCases ==
  UNION {{[parentTags |-> TagsOfInfo(JsDocOf(v.element)),
           inline |-> extractJsDoc(v.literal.members[j]),
           name |-> memberNameText(v.literal.members[j]),
           info |-> JsDocOf(v.element.typeAnnotation.members[j])] :
            j \in 1..SeqMin(v.literal.members, v.element.typeAnnotation.members)} :
         v \in LiteralVariables}

\* the parent-level tags matched to a member, in tag order
MatchedTags(case) ==
  FilterIdx(case.parentTags,
            {k \in 1..Len(case.parentTags) : tagNameText(case.parentTags[k]) = case.name}, 1)

\* the comments of a sequence of tags, in order, of the tags that have one
CommentsOf(tags) ==
  Flatten([k \in 1..Len(tags) |-> IF Has(tags[k], "comment") THEN <<tags[k].comment>> ELSE <<>>])

(***************************************************************************)
(* C4: the merged description of every type-literal member is the comments *)
(* of the parent-level tags matched to the member, in tag order, followed  *)
(* by the member's inline description.  The code normalizes the tag's      *)
(* comment a second time, so a tag comment that begins with "- " arrives   *)
(* without it: the statement does not hold of the code.                    *)
(***************************************************************************)
C4_MergedDescription ==
  \A case \in MemberCases :
    DescriptionOfInfo(case.info)
      = CommentsOf(MatchedTags(case)) \o DescriptionOfInfo(case.inline)

(***************************************************************************)
(* C5: the tags of a type-literal member's merged JSDocInfo are exactly    *)
(* the tags written inline on the member, in order (none when there are    *)
(* none), and no parent-level property tag is among them.                  *)
(***************************************************************************)
C5_InlineTagsOnly ==
  \A case \in MemberCases :
    /\ TagsOfInfo(case.info) = TagsOfInfo(case.inline)
    /\ \A k \in 1..Len(TagsOfInfo(case.info)) :
         ~\E q \in 1..Len(case.parentTags) :
            /\ case.parentTags[q].tagName = "property"
            /\ case.parentTags[q] = TagsOfInfo(case.info)[k]

\* a member with an inline tag, matched by a parent-level property tag
C5_Witness ==
  /\ pc = "done"
  /\ \E case \in MemberCases :
       /\ Len(TagsOfInfo(case.info)) = 1
       /\ \E q \in 1..Len(MatchedTags(case)) : MatchedTags(case)[q].tagName = "property"
       /\ Len(DescriptionOfInfo(case.info)) = 2

(***************************************************************************)
(* C6: a JSDocInfo is never empty but present: a node without description  *)
(* and without tags gets no JSDocInfo from extractJsDoc, a member without  *)
(* inline documentation and without matched parent-level tags gets none    *)
(* from mergeJsDoc, and every JSDocInfo of the output has a non-empty      *)
(* description or a non-empty tags sequence.                               *)
(***************************************************************************)
HoldersOf(nodes, holders) ==
  {[content |-> HasDocContent(nodes[i]), info |-> JsDocOf(holders[i])] :
     i \in 1..SeqMin(nodes, holders)}

\* (has the node documentation content, the JSDocInfo extractJsDoc gave) for the
\* elements, parameters, class members and enum members of one child
HoldersOfChild(node, elements) ==
  {[content |-> HasDocContent(node), info |-> JsDocOf(elements[i])] : i \in 1..Len(elements)}
  \cup (IF elements = <<>> THEN {}
        ELSE CASE node.kind = "FunctionDeclaration" ->
                    HoldersOf(node.parameters, FieldOr(elements[1], "parameters", <<>>))
               [] node.kind = "EnumDeclaration" ->
                    HoldersOf(node.members, FieldOr(elements[1], "members", <<>>))
               [] node.kind = "ClassDeclaration" ->
                    HoldersOf(PublicMembers(node), FieldOr(elements[1], "members", <<>>))
                    \cup UNION {HoldersOf(FieldOr(PublicMembers(node)[i], "parameters", <<>>),
                                          FieldOr(elements[1].members[i], "parameters", <<>>)) :
                                  i \in 1..SeqMin(PublicMembers(node),
                                                  FieldOr(elements[1], "members", <<>>))}
               [] OTHER -> {})

ExtractedHolders ==
  UNION {HoldersOfChild(SourceChildren[c], ElementsOf(c)) : c \in Visited}
  \cup UNION {HoldersOf(p.node.parameters, FieldOr(p.ann, "parameters", <<>>)) :
                p \in {q \in AllPairs : q.node.kind = "FunctionType"}}

\* the JSDocInfo of every type-literal member of the output, nested ones included
MergedInfos ==
  UNION {{JsDocOf(p.ann.members[j]) : j \in 1..Len(p.ann.members)} :
           p \in {q \in LiteralPairs : Has(q.ann, "members")}}

NonEmptyInfo(info) ==
  info # <<>> => (info[1].description # <<>> \/ info[1].tags # <<>>)

C6_NeverEmptyButPresent ==
  /\ \A h \in ExtractedHolders : NonEmptyInfo(h.info) /\ (~h.content => h.info = <<>>)
  /\ \A info \in MergedInfos : NonEmptyInfo(info)
  /\ \A case \in MemberCases :
       (case.inline = <<>> /\ MatchedTags(case) = <<>>) => case.info = <<>>

\* the output holds a parameter under an empty-bodied comment, a documented
\* element, a member without any documentation and a member documented only by
\* parent-level tags
C6_Witness ==
  /\ pc = "done"
  /\ \E h \in ExtractedHolders : ~h.content /\ h.info = <<>>
  /\ \E h \in ExtractedHolders : h.content /\ h.info # <<>>
  /\ \E case \in MemberCases :
       case.inline = <<>> /\ MatchedTags(case) = <<>> /\ case.info = <<>>
  /\ \E case \in MemberCases : case.inline = <<>> /\ case.info # <<>>

(***************************************************************************)
(* C7: a declaration without any documentation comment yields elements     *)
(* without jsdoc.  As stated, those elements differ from the ones of the   *)
(* same declaration under an empty-bodied comment (C7_Distinguishable);    *)
(* in the code the two are the same elements, neither with a jsdoc         *)
(* (C7_AbsentEitherWay).                                                   *)
(***************************************************************************)
\* children a and b are the same declaration, a without a documentation
\* comment and b under an empty-bodied one
SameButEmptyBodied(a, b) ==
  /\ SourceChildren[a].jsDocs = NoDoc
  /\ SourceChildren[b].jsDocs = EmptyBodiedDoc
  /\ SourceChildren[b] = [SourceChildren[a] EXCEPT !.jsDocs = EmptyBodiedDoc]
  /\ ElementsOf(a) # <<>>

Undocumented(elements) == \A i \in 1..Len(elements) : ~Has(elements[i], "jsdoc")

C7_Distinguishable ==
  \A a \in Visited : \A b \in Visited :
    SameButEmptyBodied(a, b) =>
      /\ Undocumented(ElementsOf(a))
      /\ ElementsOf(a) # ElementsOf(b)

C7_AbsentEitherWay ==
  /\ \A a \in Visited :
       (SourceChildren[a].jsDocs = NoDoc) => Undocumented(ElementsOf(a))
  /\ \A a \in Visited : \A b \in Visited :
       SameButEmptyBodied(a, b) =>
         /\ Undocumented(ElementsOf(b))
         /\ ElementsOf(a) = ElementsOf(b)

C7_Witness ==
  /\ pc = "done"
  /\ \E a \in Visited : \E b \in Visited :
       SameButEmptyBodied(a, b) /\ SourceChildren[a].kind = "VariableStatement"


(***************************************************************************)
(* C8: a named reference the checker resolves to a type alias, anywhere in *)
(* a variable, parameter, return, alias or member annotation, is emitted   *)
(* as a TypeReference whose name is the alias's declared name, and the     *)
(* alias's own structure is not inlined at the reference.                  *)
(***************************************************************************)
AliasPairs ==
  {p \in AllPairs : p.node.kind = "TypeReference" /\ Has(p.node, "aliasSymbol")}

C8_ReferenceNotExpansion ==
  \A p \in AliasPairs :
    /\ p.ann.kind = "TypeReference"
    /\ p.ann.name = p.node.aliasSymbol.name
    /\ ~Has(p.ann, "members")
    /\ ~Has(p.ann, "types")
    /\ ~Has(p.ann, "returnType")

\* a reference written under another name than the alias's declared one, and a
\* reference as a type-literal member's type
C8_Witness ==
  /\ pc = "done"
  /\ \E p \in AliasPairs : p.node.typeName # p.node.aliasSymbol.name
  /\ \E p \in LiteralPairs :
       \E j \in 1..Len(p.node.members) :
         /\ p.node.members[j].type.kind = "TypeReference"
         /\ Has(p.node.members[j].type, "aliasSymbol")

(***************************************************************************)
(* C9: extractTypeAnnotation terminates on every finite type expression,   *)
(* also one that refers to self-referential or mutually referencing        *)
(* aliases: every nested call is on a syntactic child of the caller's      *)
(* node, the depth of the recursion never exceeds the syntactic nesting    *)
(* depth of the expression, the number of calls never exceeds its number   *)
(* of nodes, and the outermost call returns.                               *)
(***************************************************************************)
TypesIn(nodes) ==
  Flatten([i \in 1..Len(nodes) |-> IF Has(nodes[i], "type") THEN <<nodes[i].type>> ELSE <<>>])

\* the type expressions written directly inside a type expression
SyntacticChildren(node) ==
  (IF Has(node, "members") THEN TypesIn(node.members) ELSE <<>>)
  \o (IF Has(node, "parameters") THEN TypesIn(node.parameters) ELSE <<>>)
  \o (IF Has(node, "type") THEN <<node.type>> ELSE <<>>)
  \o FieldOr(node, "typeArguments", <<>>)
  \o FieldOr(node, "elements", <<>>)
  \o FieldOr(node, "types", <<>>)

RECURSIVE SumSeq(_)
SumSeq(ns) == IF ns = <<>> THEN 0 ELSE Head(ns) + SumSeq(Tail(ns))

RECURSIVE SyntacticDepth(_)
SyntacticDepth(node) ==
  1 + Max({0} \cup {SyntacticDepth(SyntacticChildren(node)[i]) :
                      i \in 1..Len(SyntacticChildren(node))})

RECURSIVE SyntacticSize(_)
SyntacticSize(node) ==
  1 + SumSeq([i \in 1..Len(SyntacticChildren(node)) |->
                SyntacticSize(SyntacticChildren(node)[i])])

C9_Bounded ==
  /\ Len(frames) <= SyntacticDepth(walkRoot)
  /\ ncalls <= SyntacticSize(walkRoot)
  /\ \A i \in 1..(Len(frames) - 1) :
       frames[i + 1].node \in Range(SyntacticChildren(frames[i].node))

C9_Terminates == []C9_Bounded /\ <>(frames = <<>>)

\* the body of the alias Even, which refers to Odd, which refers to Even, was
\* resolved with one call per node
C9_Witness ==
  /\ walkRoot = declaredTypeOf("Even")
  /\ frames = <<>>
  /\ ncalls = 4

(***************************************************************************)
(* C10: the kind of the annotation extractTypeAnnotation returns is        *)
(* determined by the syntactic category of the node alone; every category  *)
(* outside the six structured ones gives a PrimitiveType that carries the  *)
(* checker's rendered text, and no input makes the resolution fail.        *)
(***************************************************************************)
KindOfCategory(category) ==
  CASE category = "TypeLiteral" -> "TypeLiteral"
    [] category = "FunctionType" -> "FunctionType"
    [] category = "TypeReference" -> "TypeReference"
    [] category = "TupleType" -> "Tuple"
    [] category = "IntersectionType" -> "Intersection"
    [] category = "UnionType" -> "Union"
    [] OTHER -> "PrimitiveType"

C10_KindByCategory ==
  /\ pc # "threw"
  /\ \A p \in AllPairs :
       /\ p.ann.kind = KindOfCategory(p.node.kind)
       /\ p.ann.kind = "PrimitiveType" => p.ann.literal = p.node.typeString

\* a type literal with a reference and a function type as member types, and an
\* array type that fell through to the fallback
C10_Witness ==
  /\ pc = "done"
  /\ \E p \in AllPairs : p.node.kind = "TypeReference" /\ p.ann.kind = "TypeReference"
  /\ \E p \in AllPairs : p.node.kind = "ArrayType" /\ p.ann.kind = "PrimitiveType"
  /\ \E p \in AllPairs : p.node.kind = "TypeLiteral"
  /\ \E p \in AllPairs : p.node.kind = "FunctionType"


(***************************************************************************)
(* C11: a Class element's isAbstract is always present and is true exactly *)
(* when the declaration carries the abstract modifier; its extends is the  *)
(* text of the first type of the extends clause when there is one and is   *)
(* absent otherwise; an implements clause never contributes to extends.    *)
(***************************************************************************)
VisitedOfKind(kind) == {c \in Visited : SourceChildren[c].kind = kind /\ ElementsOf(c) # <<>>}

DeclaredAbstract(cls) ==
  \E i \in 1..Len(FieldOr(cls, "modifiers", <<>>)) : cls.modifiers[i] = "AbstractKeyword"

\* the types named by the extends clauses of a class, in source order
ExtendedTypes(cls) ==
  Flatten([i \in 1..Len(FieldOr(cls, "heritageClauses", <<>>)) |->
             IF cls.heritageClauses[i].token = "ExtendsKeyword"
             THEN cls.heritageClauses[i].types ELSE <<>>])

C11_AbstractAndExtends ==
  \A c \in VisitedOfKind("ClassDeclaration") :
    /\ Has(ElementsOf(c)[1], "isAbstract")
    /\ ElementsOf(c)[1].isAbstract = DeclaredAbstract(SourceChildren[c])
    /\ IF ExtendedTypes(SourceChildren[c]) # <<>>
       THEN /\ Has(ElementsOf(c)[1], "extends")
            /\ ElementsOf(c)[1].extends = ExtendedTypes(SourceChildren[c])[1].expression
       ELSE ~Has(ElementsOf(c)[1], "extends")

\* an abstract class that implements Shape and then extends Base
C11_Witness ==
  /\ pc = "done"
  /\ \E c \in VisitedOfKind("ClassDeclaration") :
       /\ FieldOr(SourceChildren[c], "heritageClauses", <<>>) = <<ImplementsShape, ExtendsBase>>
       /\ ElementsOf(c)[1].isAbstract
       /\ ElementsOf(c)[1].extends = "Base"

WithoutInitializers(enumDecl) ==
  \A i \in 1..Len(enumDecl.members) : ~Has(enumDecl.members[i], "initializerType")

C13_OrdinalValues ==
  \A c \in VisitedOfKind("EnumDeclaration") :
    WithoutInitializers(SourceChildren[c]) =>
      \A i \in 1..Len(ElementsOf(c)[1].members) :
        /\ Has(ElementsOf(c)[1].members[i], "value")
        /\ ElementsOf(c)[1].members[i].value = ToString(i - 1)
        /\ ElementsOf(c)[1].members[i].typeAnnotation.literal = "number"


(***************************************************************************)
(* C14: extraction is deterministic: two calls on the same input return    *)
(* the same Element sequence, whatever was extracted between or before     *)
(* them in the same process.                                               *)
(***************************************************************************)
C14_Deterministic ==
  \A i \in 1..Len(runs) : \A j \in 1..Len(runs) :
    runs[i].input = runs[j].input => runs[i].output = runs[j].output

\* the first and the third call were on the same file, with a call on another
\* file between them, and both files have elements
C14_Witness ==
  /\ Len(runs) = 3
  /\ runs[1].input = runs[3].input
  /\ runs[1].input # runs[2].input
  /\ runs[1].output # <<>>
  /\ runs[2].output # <<>>


(***************************************************************************)
(* C15: a variable statement yields one Variable element per declared      *)
(* name, in order; every element of the statement carries the statement's  *)
(* documentation as jsdoc; an element has a typeAnnotation exactly when a  *)
(* type expression was written for its name.                               *)
(***************************************************************************)
C15_OnePerName ==
  \A c \in {d \in Visited : SourceChildren[d].kind = "VariableStatement"} :
    /\ Len(ElementsOf(c)) = Len(SourceChildren[c].declarations)
    /\ \A i \in 1..Len(ElementsOf(c)) :
         /\ ElementsOf(c)[i].kind = "Variable"
         /\ ElementsOf(c)[i].name = SourceChildren[c].declarations[i].name
         /\ JsDocOf(ElementsOf(c)[i]) = extractJsDoc(SourceChildren[c])
         /\ HasDocContent(SourceChildren[c]) <=> Has(ElementsOf(c)[i], "jsdoc")
         /\ Has(ElementsOf(c)[i], "typeAnnotation")
              <=> Has(SourceChildren[c].declarations[i], "type")

\* a documented statement of two names, the first typed and the second not
C15_Witness ==
  /\ pc = "done"
  /\ \E c \in Visited :
       /\ SourceChildren[c].kind = "VariableStatement"
       /\ Len(ElementsOf(c)) = 2
       /\ Has(ElementsOf(c)[1], "typeAnnotation")
       /\ ~Has(ElementsOf(c)[2], "typeAnnotation")
       /\ Has(ElementsOf(c)[1], "jsdoc")
       /\ Has(ElementsOf(c)[2], "jsdoc")


(***************************************************************************)
(* C16: the #private fields of a class are dropped from its members: the   *)
(* members sequence holds exactly the other members, in source order, and  *)
(* no placeholder stands where a #private field was.                       *)
(***************************************************************************)
ClassCases == {[node |-> SourceChildren[c], element |-> ElementsOf(c)[1]] :
                 c \in VisitedOfKind("ClassDeclaration")}

NameTexts(members) == [i \in 1..Len(members) |-> FieldOr(FieldOr(members[i], "name", [text |-> ""]), "text", "")]
MemberTexts(members) == [i \in 1..Len(members) |-> FieldOr(members[i], "name", "")]

C16_PrivateFieldsDropped ==
  \A case \in ClassCases :
    /\ Len(case.element.members) = Len(PublicMembers(case.node))
    /\ MemberTexts(case.element.members) = NameTexts(PublicMembers(case.node))
    /\ \A i \in 1..Len(case.element.members) :
         case.element.members[i].kind \in {"Property", "Method", "Constructor"}

\* a class of a #private field and a #private method: only the method is left
C16_Witness ==
  /\ pc = "done"
  /\ \E case \in ClassCases :
       /\ Len(case.node.members) = 2
       /\ case.node.members[1].kind = "PropertyDeclaration"
       /\ case.node.members[1].name.kind = "PrivateIdentifier"
       /\ case.node.members[2].kind = "MethodDeclaration"
       /\ MemberTexts(case.element.members) = <<case.node.members[2].name.text>>

(***************************************************************************)
(* C17: a class member's accessModifier comes from the written keywords    *)
(* only: private if a private keyword is present, else protected if a      *)
(* protected keyword is, else public if a public keyword is, else absent;  *)
(* a member without a public keyword is never marked public.               *)
(***************************************************************************)
Keywords(member) == Range(FieldOr(member, "modifiers", <<>>))

WrittenAccess(member) ==
  IF "PrivateKeyword" \in Keywords(member) THEN <<"private">>
  ELSE IF "ProtectedKeyword" \in Keywords(member) THEN <<"protected">>
  ELSE IF "PublicKeyword" \in Keywords(member) THEN <<"public">>
  ELSE <<>>

AccessOf(classMember) ==
  IF Has(classMember, "accessModifier") THEN <<classMember.accessModifier>> ELSE <<>>

C17_AccessFromKeywords ==
  \A case \in ClassCases :
    \A i \in 1..SeqMin(case.element.members, PublicMembers(case.node)) :
      /\ AccessOf(case.element.members[i]) = WrittenAccess(PublicMembers(case.node)[i])
      /\ AccessOf(case.element.members[i]) = <<"public">>
           => "PublicKeyword" \in Keywords(PublicMembers(case.node)[i])

\* a member under public and private keywords next to one without keywords
C17_Witness ==
  /\ pc = "done"
  /\ \E case \in ClassCases :
       /\ Len(case.element.members) = 2
       /\ Keywords(case.node.members[1]) = {"PublicKeyword", "PrivateKeyword"}
       /\ AccessOf(case.element.members[1]) = <<"private">>
       /\ Keywords(case.node.members[2]) = {}
       /\ AccessOf(case.element.members[2]) = <<>>


(***************************************************************************)
(* C18: the type literal of a type alias is resolved without parent-level  *)
(* tags: whatever @property tags the alias's own documentation holds, the  *)
(* jsdoc of every member of the literal is the member's inline             *)
(* documentation alone.                                                    *)
(***************************************************************************)
\* the members of the visited aliases of a type literal: the alias's tags, the
\* member's name, its inline documentation and the JSDocInfo of the output member
AliasMemberCases ==
  UNION {{[parentTags |-> TagsOfInfo(JsDocOf(ElementsOf(c)[1])),
           name |-> memberNameText(SourceChildren[c].type.members[j]),
           inline |-> extractJsDoc(SourceChildren[c].type.members[j]),
           info |-> JsDocOf(ElementsOf(c)[1].typeAnnotation.members[j])] :
            j \in 1..SeqMin(SourceChildren[c].type.members,
                            ElementsOf(c)[1].typeAnnotation.members)} :
         c \in {d \in VisitedOfKind("TypeAliasDeclaration") :
                  /\ Has(SourceChildren[d], "type")
                  /\ SourceChildren[d].type.kind = "TypeLiteral"
                  /\ Has(ElementsOf(d)[1], "typeAnnotation")
                  /\ Has(ElementsOf(d)[1].typeAnnotation, "members")}}

C18_AliasMembersInlineOnly ==
  \A case \in AliasMemberCases :
    /\ DescriptionOfInfo(case.info) = DescriptionOfInfo(case.inline)
    /\ TagsOfInfo(case.info) = TagsOfInfo(case.inline)
    /\ (case.inline = <<>>) <=> (case.info = <<>>)

\* an alias whose documentation has a property tag naming a member, next to a
\* member with inline documentation of its own
C18_Witness ==
  /\ pc = "done"
  /\ \E case \in AliasMemberCases :
       /\ \E k \in 1..Len(case.parentTags) :
            /\ case.parentTags[k].tagName = "property"
            /\ tagNameText(case.parentTags[k]) = case.name
            /\ Has(case.parentTags[k], "comment")
       /\ case.info = <<>>
  /\ \E case \in AliasMemberCases : case.info # <<>>


(***************************************************************************)
(* C19: a @property tag whose comment matches "{type} name - description"  *)
(* is emitted with literal, name and comment equal to the three captured   *)
(* groups, the comment trimmed; one whose comment does not match is still  *)
(* emitted, in its place, with its tagName and without name, literal or    *)
(* comment.  The comment is the one extractComment normalized.             *)
(***************************************************************************)
NonBlanks(s, a, b) == a <= b /\ \A i \in a..b : s[i] # " "
Blanks(s, a, b) == a <= b /\ \A i \in a..b : s[i] = " "

\* every way to read s as  { g1 } blanks g2 blanks - blanks g3,  as the ends
\* <<e1, b1, e2, b2, b3>> of g1, of the blanks after "}", of g2, of the blanks
\* before the dash and of the blanks after it
Readings(s) ==
  IF Len(s) < 1 \/ s[1] # "{" THEN {}
  ELSE UNION {UNION {UNION {UNION {
         {<<e1, b1, e2, b2, b3>> : b3 \in {q \in (b2 + 2)..Len(s) : Blanks(s, b2 + 2, q)}} :
           b2 \in {q \in (e2 + 1)..(Len(s) - 1) : Blanks(s, e2 + 1, q) /\ s[q + 1] = "-"}} :
           e2 \in {q \in (b1 + 1)..Len(s) : NonBlanks(s, b1 + 1, q)}} :
           b1 \in {q \in (e1 + 2)..Len(s) : Blanks(s, e1 + 2, q)}} :
           e1 \in {q \in 2..(Len(s) - 1) : NonBlanks(s, 2, q) /\ s[q + 1] = "}"}}

\* a greedy quantifier gives up characters only when nothing else matches: the
\* reading the pattern reports is the greatest one, earlier groups first
Before(m, n) == \E i \in 1..5 : m[i] < n[i] /\ \A j \in 1..(i - 1) : m[j] = n[j]
Reported(M) == CHOOSE m \in M : \A n \in M : ~Before(m, n)

RECURSIVE Trimmed(_)
Trimmed(s) ==
  IF s = <<>> THEN s
  ELSE IF Head(s) = " " THEN Trimmed(Tail(s))
  ELSE IF s[Len(s)] = " " THEN Trimmed(SubSeq(s, 1, Len(s) - 1))
  ELSE s

ExpectedPropertyTag(s, m) ==
  [tagName |-> "property",
   literal |-> SubSeq(s, 2, m[1]),
   name |-> SubSeq(s, m[2] + 1, m[3]),
   comment |-> Trimmed(SubSeq(s, m[5] + 1, Len(s)))]

ReadingsOfComment(text) == IF text = <<>> THEN {} ELSE Readings(text[1])

\* the tags written on a node, over all its documentation blocks
WrittenTags(node) == Flatten([i \in 1..Len(node.jsDocs) |-> node.jsDocs[i].tags])

PropertyTagAsClaimed(written, emitted) ==
  IF ReadingsOfComment(extractComment(written.comment)) # {}
  THEN emitted = ExpectedPropertyTag(extractComment(written.comment)[1],
                                     Reported(ReadingsOfComment(extractComment(written.comment))))
  ELSE DOMAIN emitted = {"tagName"}

C19_PropertyTagParsing ==
  \A c \in {d \in Visited : ElementsOf(d) # <<>>} :
    /\ Len(TagsOfInfo(JsDocOf(ElementsOf(c)[1]))) = Len(WrittenTags(SourceChildren[c]))
    /\ \A k \in 1..SeqMin(TagsOfInfo(JsDocOf(ElementsOf(c)[1])), WrittenTags(SourceChildren[c])) :
         /\ TagsOfInfo(JsDocOf(ElementsOf(c)[1]))[k].tagName
              = WrittenTags(SourceChildren[c])[k].tagName
         /\ WrittenTags(SourceChildren[c])[k].tagName = "property"
              => PropertyTagAsClaimed(WrittenTags(SourceChildren[c])[k],
                                      TagsOfInfo(JsDocOf(ElementsOf(c)[1]))[k])

\* a malformed property tag emitted bare, in front of a well-formed one
C19_Witness ==
  /\ pc = "done"
  /\ \E c \in Visited :
       /\ ElementsOf(c) # <<>>
       /\ Len(TagsOfInfo(JsDocOf(ElementsOf(c)[1]))) = 2
       /\ DOMAIN TagsOfInfo(JsDocOf(ElementsOf(c)[1]))[1] = {"tagName"}
       /\ TagsOfInfo(JsDocOf(ElementsOf(c)[1]))[1].tagName = "property"
       /\ TagsOfInfo(JsDocOf(ElementsOf(c)[1]))[2]
            = [tagName |-> "property", literal |-> <<"s">>, name |-> <<"a">>,
               comment |-> <<"-", " ", "y">>]


(***************************************************************************)
(* C20 as stated: every TypeAnnotation, of each of the seven variants,     *)
(* carries a literal holding the rendered text of its type expression.     *)
(***************************************************************************)
C20_EveryVariantHasLiteral ==
  \A p \in AllPairs : Has(p.ann, "literal") /\ p.ann.literal = p.node.typeString

(***************************************************************************)
(* C20: every TypeAnnotation is of one of the seven variants; one of a     *)
(* variant other than TypeReference carries a literal holding the rendered *)
(* text of its type expression, and a TypeReference carries its name and   *)
(* no literal.                                                             *)
(***************************************************************************)
Variants ==
  {"PrimitiveType", "TypeReference", "TypeLiteral", "Union", "Intersection", "Tuple",
   "FunctionType"}

C20_LiteralExceptReference ==
  \A p \in AllPairs :
    /\ p.ann.kind \in Variants
    /\ IF p.ann.kind = "TypeReference"
       THEN Has(p.ann, "name") /\ ~Has(p.ann, "literal")
       ELSE Has(p.ann, "literal") /\ p.ann.literal = p.node.typeString

\* a reference with type arguments next to annotations that carry their text
C20_Witness ==
  /\ pc = "done"
  /\ \E p \in AllPairs :
       /\ p.ann.kind = "TypeReference"
       /\ Has(p.ann, "parameters")
       /\ ~Has(p.ann, "literal")
  /\ \E p \in AllPairs : p.ann.kind = "PrimitiveType" /\ p.ann.literal = p.node.typeString
  /\ \E p \in AllPairs : p.ann.kind # "PrimitiveType" /\ Has(p.ann, "literal")


(***************************************************************************)
(* C21: only parent-level @property tags whose name equals the member's    *)
(* identifier feed a type-literal member's description: the description    *)
(* has one entry per such tag that has a comment, followed by the member's *)
(* inline description, and a tag of another tagName adds no entry, also    *)
(* when its name equals the member's identifier.  The code matches tags by *)
(* name alone, so a @param tag named like the member adds an entry: the    *)
(* statement does not hold of the code.                                    *)
(***************************************************************************)
\* the parent-level @property tags matched to a member, in tag order
MatchedPropertyTags(case) ==
  FilterIdx(case.parentTags,
            {k \in 1..Len(case.parentTags) :
               /\ case.parentTags[k].tagName = "property"
               /\ case.name # <<>>
               /\ tagNameText(case.parentTags[k]) = case.name}, 1)

C21_PropertyTagsOnly ==
  \A case \in MemberCases :
    Len(DescriptionOfInfo(case.info))
      = Len(CommentsOf(MatchedPropertyTags(case))) + Len(DescriptionOfInfo(case.inline))


(***************************************************************************)
(* C22: the kind of a class member follows the member's syntactic          *)
(* category: Property for a property declaration, Method for a method      *)
(* declaration, Constructor for a constructor declaration; a member has    *)
(* kind Constructor exactly when it is the class's constructor, and then   *)
(* it has no name.  The code labels every member that is neither a         *)
(* property nor a method as Constructor, an accessor too: the statement    *)
(* does not hold of the code.                                              *)
(***************************************************************************)
C22_KindByMemberCategory ==
  \A case \in ClassCases :
    \A i \in 1..SeqMin(case.element.members, PublicMembers(case.node)) :
      /\ PublicMembers(case.node)[i].kind = "PropertyDeclaration"
           => case.element.members[i].kind = "Property"
      /\ PublicMembers(case.node)[i].kind = "MethodDeclaration"
           => case.element.members[i].kind = "Method"
      /\ case.element.members[i].kind = "Constructor"
           <=> PublicMembers(case.node)[i].kind = "Constructor"
      /\ case.element.members[i].kind = "Constructor"
           => ~Has(case.element.members[i], "name")


(***************************************************************************)
(* C24: the types of a Union, Intersection or Tuple annotation have one    *)
(* entry per written constituent, in the order written, also when a        *)
(* constituent is written twice; entry i is the annotation of constituent  *)
(* i: it has the kind of that constituent's category and carries its       *)
(* rendered text, or its name when it is a reference.                      *)
(***************************************************************************)
\* the constituents written in a union, intersection or tuple node
Constituents(node) == IF node.kind = "TupleType" THEN node.elements ELSE node.types

SequencePairs ==
  {p \in AllPairs : p.node.kind \in {"UnionType", "IntersectionType", "TupleType"}}

\* the annotation names the type expression it was made for
AnnotationOf(ann, node) ==
  /\ ann.kind = KindOfCategory(node.kind)
  /\ IF node.kind = "TypeReference"
     THEN Has(ann, "name") /\ ann.name \in {node.typeName, FieldOr(node, "aliasSymbol", [name |-> ""]).name}
     ELSE Has(ann, "literal") /\ ann.literal = node.typeString

C24_OnePerConstituent ==
  \A p \in SequencePairs :
    /\ Has(p.ann, "types")
    /\ Len(p.ann.types) = Len(Constituents(p.node))
    /\ \A i \in 1..SeqMin(p.ann.types, Constituents(p.node)) :
         AnnotationOf(p.ann.types[i], Constituents(p.node)[i])

\* an intersection that writes one constituent twice
C24_Witness ==
  /\ pc = "done"
  /\ \E p \in SequencePairs :
       /\ p.node.kind = "IntersectionType"
       /\ Len(p.node.types) = 2
       /\ p.node.types[1] = p.node.types[2]
       /\ Len(p.ann.types) = 2
       /\ p.ann.types[1] = p.ann.types[2]


(***************************************************************************)
(* C25: ownership in the produced model is tree-shaped: no record is       *)
(* referenced from two parents, and in particular no two elements refer to *)
(* the same JSDocInfo object.  extractVariables stores the one JSDocInfo   *)
(* it extracted from the statement in every element of the statement: the  *)
(* statement does not hold of the code.                                    *)
(***************************************************************************)
C25_NoSharedJsDoc ==
  \A i, j \in 1..Len(jsdocRef) :
    i # j /\ jsdocRef[i] # <<>> => jsdocRef[i] # jsdocRef[j]


(***************************************************************************)
(* C26: every kind the engine emits has a renderer: the kind of every      *)
(* element is a key of the renderer's element map, and the kind of every   *)
(* annotation anywhere in the output, those of enum members, class members *)
(* and parameters included, is a key of the renderer's annotation map.     *)
(***************************************************************************)
\* the kinds of the annotations at or below an annotation of the output
RECURSIVE KindsUnder(_)
KindsOfHolders(holders) ==
  UNION {KindsUnder(holders[i].typeAnnotation) :
           i \in {j \in 1..Len(holders) : Has(holders[j], "typeAnnotation")}}
KindsOfSeq(anns) == UNION {KindsUnder(anns[i]) : i \in 1..Len(anns)}
KindsUnder(ann) ==
  {ann.kind}
  \cup (IF Has(ann, "members") THEN KindsOfHolders(ann.members) ELSE {})
  \cup (IF Has(ann, "parameters")
        THEN IF Has(ann, "returnType")
             THEN KindsOfHolders(ann.parameters) ELSE KindsOfSeq(ann.parameters)
        ELSE {})
  \cup (IF Has(ann, "returnType") THEN KindsUnder(ann.returnType) ELSE {})
  \cup (IF Has(ann, "types") THEN KindsOfSeq(ann.types) ELSE {})

\* the kinds of the annotations of the parameters of class members
KindsOfMemberParameters(members) ==
  UNION {KindsOfHolders(members[i].parameters) :
           i \in {j \in 1..Len(members) : Has(members[j], "parameters")}}

\* the kinds of all annotations of one element
KindsOfElement(element) ==
  KindsOfHolders(<<element>>)
  \cup (IF Has(element, "returnType") THEN KindsUnder(element.returnType) ELSE {})
  \cup (IF Has(element, "parameters") THEN KindsOfHolders(element.parameters) ELSE {})
  \cup (IF Has(element, "members")
        THEN KindsOfHolders(element.members) \cup KindsOfMemberParameters(element.members)
        ELSE {})

C26_EveryKindHasRenderer ==
  \A i \in 1..Len(extractedTypes) :
    /\ extractedTypes[i].kind \in components
    /\ KindsOfElement(extractedTypes[i]) \subseteq typeAnnotationComponents

\* a class with member and parameter annotations next to an enum
C26_Witness ==
  /\ pc = "done"
  /\ \E i \in 1..Len(extractedTypes) :
       /\ extractedTypes[i].kind = "Class"
       /\ KindsOfMemberParameters(extractedTypes[i].members) # {}
  /\ \E i \in 1..Len(extractedTypes) :
       /\ extractedTypes[i].kind = "Enum"
       /\ KindsOfHolders(extractedTypes[i].members) = {"PrimitiveType"}


(***************************************************************************)
(* C27: a type-literal member without identifier gets no external          *)
(* descriptions: its jsdoc is its own inline documentation, whatever tags  *)
(* without a name the parent declaration carries.  The code matches a tag  *)
(* without name to a member without name (undefined equals undefined):     *)
(* the statement does not hold of the code.                                *)
(***************************************************************************)
C27_NamelessMemberInlineOnly ==
  \A case \in MemberCases : case.name = <<>> => case.info = case.inline


(***************************************************************************)
(* C28: parent-level tags reach only the direct members of a variable's    *)
(* outermost type literal: the jsdoc of every member of a type literal     *)
(* nested anywhere below a variable's annotation, or written in a          *)
(* function's parameter or return type, is the member's inline             *)
(* documentation alone, whatever tags the declaration carries.             *)
(***************************************************************************)
\* the pairs strictly below the annotation of a typed variable declaration
PairsBelowVariables ==
  UNION {UNION {PairsUnder(SourceChildren[c].declarations[i].type,
                           ElementsOf(c)[i].typeAnnotation)
                \ {[node |-> SourceChildren[c].declarations[i].type,
                    ann |-> ElementsOf(c)[i].typeAnnotation]} :
                  i \in {j \in 1..SeqMin(SourceChildren[c].declarations, ElementsOf(c)) :
                           /\ Has(SourceChildren[c].declarations[j], "type")
                           /\ Has(ElementsOf(c)[j], "typeAnnotation")}} :
           c \in VisitedOfKind("VariableStatement")}

\* the pairs of the parameter and return types of the visited functions
PairsOfFunctions ==
  UNION {PairsOfChild(SourceChildren[c], ElementsOf(c)) :
           c \in VisitedOfKind("FunctionDeclaration")}

\* the nested type literals, each with the tags of the declaration around it
NestedLiterals ==
  {p \in PairsBelowVariables \cup PairsOfFunctions :
     p.node.kind = "TypeLiteral" /\ Has(p.ann, "members")}

C28_NestedMembersInlineOnly ==
  \A p \in NestedLiterals :
    /\ Len(p.ann.members) = Len(p.node.members)
    /\ \A j \in 1..SeqMin(p.ann.members, p.node.members) :
         JsDocOf(p.ann.members[j]) = extractJsDoc(p.node.members[j])

\* under a @property tag for a: a literal whose member a is matched and whose
\* type is a literal with a member a that is not
C28_Witness ==
  /\ pc = "done"
  /\ \E case \in MemberCases :
       /\ case.name = <<"a">>
       /\ MatchedTags(case) # <<>>
       /\ DescriptionOfInfo(case.info) # <<>>
  /\ \E p \in NestedLiterals :
       \E j \in 1..Len(p.node.members) :
         /\ memberNameText(p.node.members[j]) = <<"a">>
         /\ ~Has(p.ann.members[j], "jsdoc")


(***************************************************************************)
(* C29: every emitted class member has a typeAnnotation, and it is a       *)
(* PrimitiveType that holds the checker's rendered text for the member and *)
(* nothing else, whatever type is written on the member (a type literal,   *)
(* an alias reference, a union, a function type) or none: the written      *)
(* type is never resolved structurally.                                    *)
(***************************************************************************)
C29_MemberAnnotationPrimitive ==
  \A case \in ClassCases :
    \A i \in 1..Len(case.element.members) :
      /\ case.element.members[i].kind \in {"Property", "Method", "Constructor"}
      /\ Has(case.element.members[i], "typeAnnotation")
      /\ case.element.members[i].typeAnnotation.kind = "PrimitiveType"
      /\ DOMAIN case.element.members[i].typeAnnotation = {"kind", "literal"}
      /\ i <= Len(PublicMembers(case.node))
           => case.element.members[i].typeAnnotation.literal
                = PublicMembers(case.node)[i].typeString

\* a property whose written type is a type literal next to a constructor
C29_Witness ==
  /\ pc = "done"
  /\ \E case \in ClassCases :
       /\ Len(case.node.members) = 2
       /\ Has(case.node.members[1], "type")
       /\ case.node.members[1].type.kind = "TypeLiteral"
       /\ case.node.members[2].kind = "Constructor"
       /\ Len(case.element.members) = 2
       /\ case.element.members[1].typeAnnotation.kind = "PrimitiveType"
       /\ case.element.members[2].typeAnnotation.kind = "PrimitiveType"


(***************************************************************************)
(* C30: the text a matched parent-level tag contributes to a member's      *)
(* merged description is the comment of that tag as the parent element's   *)
(* jsdoc.tags holds it: entry k of the description is the comment of the   *)
(* k-th matched tag that has one.  mergeJsDoc applies extractComment to a  *)
(* comment extractJsDoc already normalized and strips a second "- ": the   *)
(* statement does not hold of the code.                                    *)
(***************************************************************************)
C30_ContributedTextIsTagComment ==
  \A case \in MemberCases :
    /\ Len(DescriptionOfInfo(case.info)) >= Len(CommentsOf(MatchedTags(case)))
    /\ \A k \in 1..SeqMin(CommentsOf(MatchedTags(case)), DescriptionOfInfo(case.info)) :
         DescriptionOfInfo(case.info)[k] = CommentsOf(MatchedTags(case))[k]

====
